---- MODULE Spec2Model ----
(***************************************************************************)
(* Region detection of the EpaperAutomation engine.                        *)
(*                                                                         *)
(*   engine/article_segmenter.py  NewspaperArticleSegmenter (metadata)     *)
(*   engine/extract_articles.py   ArticleExtractor.extract_articles_from_pdf*)
(*   engine/phase_1.py            ArticleExtractor (pixel, hybrid merge)   *)
(*                                                                         *)
(* Units.  Lengths are PDF points / pixels (integers).  Ratios that the    *)
(* code holds as floats are held as exact integers: area ratios in         *)
(* thousandths (0.01 = 10, 0.85 = 850), margin percentages in tenths of a  *)
(* percent (14.5 = 145, 8.5 = 85), scores in tenths (1.0 = 10, 0.9 = 9).   *)
(* Every float comparison of the code is modelled by cross-multiplying, so *)
(* that no division rounds.                                                *)
(***************************************************************************)
EXTENDS Integers, Sequences, FiniteSets, TLC

\* Longest document processed (pages).
MaxPages == 2

VARIABLES
    entry,            \* which entry point this run executes
    segmenter,        \* fields of the NewspaperArticleSegmenter instance
    num_pages,        \* len(source_pdf) / len(pdf_doc)
    page_num,         \* loop variable of the page loop (0-based)
    pc,               \* "loop" | "done" (returned) | "raised" (exception left the entry point);
                      \* repeated detection: "first", "between", "again" after the calls
    output_pdf,       \* pages of the output document, in order
    article_regions,  \* Region list of the page processed last, as its consumer got it
    errors,           \* page_num values printed by process_pdf's except branch
    uploads,          \* extract_articles: one record per article handed to the upload API
    adaptive_rects,   \* phase_1: rectangles of the 'adaptive' pass on the page processed last
    canny_rects,      \* phase_1: rectangles of the 'canny' pass on the page processed last
    filtered_rects,   \* phase_1: merged rectangles of the page processed last
    article_urls,     \* phase_1: filename -> public url of uploaded articles
    saved_articles,   \* phase_1: (page, article number, rectangle) of every article image written
    page_plumber,     \* the pdfplumber page read by the iteration done last
    page_contours,    \* phase_1, repeated detection: contours found on the page detected last
    first_run,        \* repeated detection: input and result of the first call (<<>> before it)
    workers,          \* page workers: position and locals of each page's pipeline
    last_error,       \* step of the page processed last that raised ("none" if none)
    files,            \* LayoutParser: the PDF files on disk, path -> document
    analyze,          \* LayoutParser.analyze_page: arguments, locals and result of the call
    region_text,      \* main.py: the text attribute of every Region object of the page
    regions_by_language   \* main.py: language -> list of (references to) Region objects

vars == <<entry, segmenter, num_pages, page_num, pc, output_pdf, article_regions,
          errors, uploads, adaptive_rects, canny_rects, filtered_rects,
          article_urls, saved_articles, page_plumber, page_contours, first_run,
          workers, last_error, files, analyze, region_text, regions_by_language>>

\* the state of LayoutParser runs and of the translation loop of main.py
parser_vars == <<files, analyze>>
translation_vars == <<region_text, regions_by_language>>

----------------------------------------------------------------------------
(* Small helpers *)

Abs(n) == IF n < 0 THEN -n ELSE n

Max(a, b) == IF a > b THEN a ELSE b

Min(a, b) == IF a < b THEN a ELSE b

RECURSIVE SeqFilterIdx(_, _, _)
\* the indices i in k..Len(s) with keep[i], in increasing order
SeqFilterIdx(keep, k, n) ==
    IF k > n THEN <<>>
    ELSE IF keep[k] THEN <<k>> \o SeqFilterIdx(keep, k + 1, n)
    ELSE SeqFilterIdx(keep, k + 1, n)

----------------------------------------------------------------------------
(* Inputs: pages of a document *)

\* pdfplumber page size of every sample page (points); the pixmap of
\* phase_1 has the same size in pixels.
PageSize == [width |-> 800, height |-> 1000]

\* img_obj records of pdfplumber: x0, top, width, height
Img(x0, top, w, h) == [x0 |-> x0, top |-> top, width |-> w, height |-> h]

ImgStraddle   == Img(0, 100, 200, 200)     \* [0,100,200,300]: straddles 14.5%
ImgAbove      == Img(0, 0, 200, 100)       \* [0,0,200,100]: above 14.5%
ImgNormal     == Img(100, 200, 240, 300)   \* 9% of the page
ImgAtMin      == Img(500, 500, 80, 100)    \* exactly 1% of the page
ImgFullPage   == Img(0, 0, 800, 1000)      \* the page background
ImgDegenerate == Img(300, 400, 0, 200)     \* zero width
ImgNested     == Img(110, 205, 220, 290)   \* strictly inside ImgNormal
ImgAtMargin   == Img(0, 45, 200, 100)      \* [0,45,200,145]: ends on the 14.5% line

ImageLists ==
    { <<>>, <<ImgStraddle, ImgAtMargin>>, <<ImgAbove, ImgNormal>>, <<ImgNormal, ImgAtMin>>,
      <<ImgFullPage>>, <<ImgDegenerate>>, <<ImgNormal, ImgNested>> }

\* table.bbox of pdfplumber: (x0, y0, x1, y1)
TblStraddle == <<0, 100, 200, 300>>
TblNormal   == <<400, 600, 700, 900>>
TblFullPage == <<0, 0, 800, 1000>>

TableLists == { <<>>, <<TblStraddle>>, <<TblNormal>>, <<TblFullPage>> }

\* What pdfplumber reports for page index n (0-based) of the document.
\* pdfplumber numbers its pages from 1: pages[n].page_number = n + 1.
PlumberPage(n, images, tables) ==
    [page_number |-> n + 1, width |-> PageSize.width, height |-> PageSize.height,
     images |-> images, tables |-> tables]

----------------------------------------------------------------------------
(* NewspaperArticleSegmenter: construction *)

s3_base_url == "https://epaper-article-db.s3.ap-south-1.amazonaws.com/epaper-articles"

\* a date "YYYY-MM-DD" as its sequence of characters
Date_2024_05_01 == <<"2", "0", "2", "4", "-", "0", "5", "-", "0", "1">>

\* __init__ stores its arguments unchanged; it checks none of them.
NewSegmenter(min_area_ratio, max_area_ratio, first_pct, other_pct, date) ==
    [min_area_ratio |-> min_area_ratio,
     max_area_ratio |-> max_area_ratio,
     first_page_margin_percent |-> first_pct,
     other_pages_margin_percent |-> other_pct,
     date |-> date,
     s3_base_url |-> s3_base_url]

\* NewspaperArticleSegmenter(): the defaults of __init__
DefaultSegmenter == NewSegmenter(10, 850, 145, 85, Date_2024_05_01)

\* the configurations a caller of process_pdf constructs the segmenter with
Segmenters ==
    { DefaultSegmenter,
      NewSegmenter(0, 1000, 145, 85, Date_2024_05_01),
      NewSegmenter(10, 90, 145, 85, Date_2024_05_01),
      NewSegmenter(10, 850, 500, 85, Date_2024_05_01),
      NewSegmenter(850, 10, 145, 85, Date_2024_05_01) }

\* generate_article_url with a seeded fault: the dashes of the date stay
generate_article_url_dashed(self, page, article) ==
    [base |-> self.s3_base_url,
     year |-> SubSeq(self.date, 1, 4),
     yyyymmdd |-> self.date,
     page |-> page,
     article |-> article]

\* _generate_article_url: year = date[:4], yyyymmdd = date.replace("-", "");
\* the url is the f-string of (base, year, yyyymmdd, page_num, article_num)
generate_article_url(self, page, article) ==
    [base |-> self.s3_base_url,
     year |-> SubSeq(self.date, 1, 4),
     yyyymmdd |-> SelectSeq(self.date, LAMBDA c : c # "-"),
     page |-> page,
     article |-> article]

\* the text of a url, piece by piece as the f-string of
\* _generate_article_url puts it together:
\* f"{self.s3_base_url}/{year}/{yyyymmdd}/page{page_num}-article{article_num}.jpg"
ArticleUrlText(url) ==
    <<url.base, "/">> \o url.year \o <<"/">> \o url.yyyymmdd
        \o <<"/", "page", ToString(url.page), "-article", ToString(url.article), ".jpg">>

----------------------------------------------------------------------------
(* NewspaperArticleSegmenter._calculate_page_coverage *)

\* 1 - (|rx0-px0|/pw + |rx1-px1|/pw + |ry0-py0|/ph + |ry1-py1|/ph) / 4,
\* returned as the exact fraction num/den (den = 4 * pw * ph > 0)
calculate_page_coverage(region_box, page_box) ==
    LET pw == page_box[3] - page_box[1]
        ph == page_box[4] - page_box[2]
        horiz == Abs(region_box[1] - page_box[1]) + Abs(region_box[3] - page_box[3])
        vert  == Abs(region_box[2] - page_box[2]) + Abs(region_box[4] - page_box[4])
    IN  [num |-> 4 * pw * ph - (horiz * ph + vert * pw), den |-> 4 * pw * ph]

\* CoverageTooHigh with a seeded fault: the threshold is 1.0
CoverageAboveOne(cov) == cov.num > cov.den

\* page_coverage > 0.9
CoverageTooHigh(cov) == 10 * cov.num > 9 * cov.den

----------------------------------------------------------------------------
(* NewspaperArticleSegmenter._extract_article_regions *)

\* top_margin = page.height * (margin_percent / 100)
TopMargin(self, page, is_first_page) ==
    LET margin_percent == IF is_first_page THEN self.first_page_margin_percent
                          ELSE self.other_pages_margin_percent
    IN  (page.height * margin_percent) \div 1000

\* x0, y0 = img['x0'], img['top']; x1 = x0 + width; y1 = y0 + height
ImageBox(img) == <<img.x0, img.top, img.x0 + img.width, img.top + img.height>>

\* InTopMargin with a seeded fault: `<` for `<=`
InTopMarginStrict(box, top_margin) == box[4] < top_margin

\* if y1 <= top_margin: continue
InTopMargin(box, top_margin) == box[4] <= top_margin

\* if y0 < top_margin: y0 = top_margin
ClampToMargin(box, top_margin) ==
    IF box[2] < top_margin THEN <<box[1], top_margin, box[3], box[4]>> ELSE box

BoxArea(box) == (box[3] - box[1]) * (box[4] - box[2])

PageArea(page) == page.width * page.height

\* AreaRatioRejected with a seeded fault: the upper bound is not tested
AreaRatioRejectedNoMax(self, box, page) ==
    BoxArea(box) * 1000 < self.min_area_ratio * PageArea(page)

\* if area_ratio < self.min_area_ratio or area_ratio > self.max_area_ratio: continue
AreaRatioRejected(self, box, page) ==
    \/ BoxArea(box) * 1000 < self.min_area_ratio * PageArea(page)
    \/ BoxArea(box) * 1000 > self.max_area_ratio * PageArea(page)

\* the three `continue` tests of either loop, on the candidate's raw box
Survives(self, page, top_margin, raw) ==
    /\ ~InTopMargin(raw, top_margin)
    /\ LET box == ClampToMargin(raw, top_margin)
       IN  /\ ~AreaRatioRejected(self, box, page)
           /\ ~CoverageTooHigh(calculate_page_coverage(
                   box, <<0, 0, page.width, page.height>>))

\* the region dictionary of the image loop; i is the 1-based position of
\* the image in page.images (enumerate's i is i - 1)
ImageRegion(self, page, top_margin, i) ==
    LET raw == ImageBox(page.images[i])
    IN  [score |-> 10,
         label |-> [prefix |-> "article_", num |-> i - 1],
         box |-> ClampToMargin(raw, top_margin),
         original_box |-> raw,
         url |-> generate_article_url(self, page.page_number + 1, (i - 1) + 1)]

\* TableRegion with a seeded fault: the url counts tables from 1
TableRegionOwnCount(self, page, top_margin, i) ==
    LET box == ClampToMargin(page.tables[i], top_margin)
    IN  [score |-> 9,
         label |-> [prefix |-> "table_article_", num |-> i - 1],
         box |-> box,
         original_box |-> box,
         url |-> generate_article_url(self, page.page_number + 1, (i - 1) + 1)]

\* the region dictionary of the table loop: original_box is built from the
\* loop's x0, y0, x1, y1 after y0 was reassigned
TableRegion(self, page, top_margin, i) ==
    LET box == ClampToMargin(page.tables[i], top_margin)
    IN  [score |-> 9,
         label |-> [prefix |-> "table_article_", num |-> i - 1],
         box |-> box,
         original_box |-> box,
         url |-> generate_article_url(self, page.page_number + 1,
                                      Len(page.images) + (i - 1) + 1)]

\* extract_article_regions with a seeded fault: the table loop runs first
extract_article_regions_tables_first(self, page, is_first_page) ==
    LET top_margin == TopMargin(self, page, is_first_page)
        img_keep == [i \in 1..Len(page.images) |->
                        Survives(self, page, top_margin, ImageBox(page.images[i]))]
        tbl_keep == [i \in 1..Len(page.tables) |->
                        Survives(self, page, top_margin, page.tables[i])]
        img_idx == SeqFilterIdx(img_keep, 1, Len(page.images))
        tbl_idx == SeqFilterIdx(tbl_keep, 1, Len(page.tables))
    IN  [k \in 1..Len(tbl_idx) |-> TableRegion(self, page, top_margin, tbl_idx[k])]
        \o [k \in 1..Len(img_idx) |-> ImageRegion(self, page, top_margin, img_idx[k])]

\* the image loop, then the table loop, appending to one list
extract_article_regions(self, page, is_first_page) ==
    LET top_margin == TopMargin(self, page, is_first_page)
        img_keep == [i \in 1..Len(page.images) |->
                        Survives(self, page, top_margin, ImageBox(page.images[i]))]
        tbl_keep == [i \in 1..Len(page.tables) |->
                        Survives(self, page, top_margin, page.tables[i])]
        img_idx == SeqFilterIdx(img_keep, 1, Len(page.images))
        tbl_idx == SeqFilterIdx(tbl_keep, 1, Len(page.tables))
    IN  [k \in 1..Len(img_idx) |-> ImageRegion(self, page, top_margin, img_idx[k])]
        \o [k \in 1..Len(tbl_idx) |-> TableRegion(self, page, top_margin, tbl_idx[k])]

----------------------------------------------------------------------------
(* Initial state: one entry point is called on a document *)

Entries == {"process_pdf", "extract_articles_from_pdf", "detect_and_extract_articles"}

\* no LayoutParser call is under way and no file is looked at
NoFiles == <<>>
NoCall == <<>>

\* no page read yet, or the iteration raised before looking at the page
NoPage == PlumberPage(-1, <<>>, <<>>)

\* phase_1 constructs no segmenter
NoSegmenter == <<>>

\* no page binarized yet
NoContours == [adaptive |-> <<>>, canny |-> <<>>]

Init ==
    /\ entry \in Entries
    /\ segmenter \in (CASE entry = "process_pdf" -> Segmenters
                        [] entry = "extract_articles_from_pdf" -> {DefaultSegmenter}
                        [] OTHER -> {NoSegmenter})
    /\ num_pages \in 1..MaxPages
    /\ page_num = 0
    /\ pc = "loop"
    /\ output_pdf = <<>>
    /\ article_regions = <<>>
    /\ errors = <<>>
    /\ uploads = <<>>
    /\ adaptive_rects = <<>>
    /\ canny_rects = <<>>
    /\ filtered_rects = <<>>
    /\ article_urls = <<>>
    /\ saved_articles = <<>>
    /\ page_plumber = NoPage
    /\ page_contours = NoContours
    /\ first_run = <<>>
    /\ workers = <<>>
    /\ last_error = "none"
    /\ files = NoFiles
    /\ analyze = NoCall
    /\ region_text = <<>>
    /\ regions_by_language = <<>>

----------------------------------------------------------------------------
(* NewspaperArticleSegmenter.process_pdf *)

\* Relabel with a seeded fault: article_num = i, without the + 1
RelabelZeroBased(self, n, regions) ==
    [i \in 1..Len(regions) |->
        [regions[i] EXCEPT !.label = [prefix |-> "article_", num |-> i - 1],
                           !.url = generate_article_url(self, n + 1, i - 1)]]

\* Relabel with a seeded fault: the count goes on from the list the
\* previous call left behind
RelabelContinuing(self, n, regions) ==
    [i \in 1..Len(regions) |->
        [regions[i] EXCEPT !.label = [prefix |-> "article_",
                                      num |-> Len(article_regions) + i],
                           !.url = generate_article_url(self, n + 1,
                                                        Len(article_regions) + i)]]

\* "Update article numbers for this page": article_num = i + 1 for
\* enumerate's 0-based i, i.e. the 1-based position in the list
Relabel(self, n, regions) ==
    [i \in 1..Len(regions) |->
        [regions[i] EXCEPT !.label = [prefix |-> "article_", num |-> i],
                           !.url = generate_article_url(self, n + 1, i)]]

\* the link dictionary handed to page.insert_link
LinkOf(region) == [kind |-> "LINK_URI", uri |-> region.url, from |-> region.box]

\* a page of the output document: the source page it was copied from and
\* what was drawn on the copy
OutPage(n, overlay, image, links) ==
    [src |-> n, overlay |-> overlay, image |-> image, links |-> links]

\* steps of the try block that can raise, in program order
StepsBeforeCopy == {"extract", "label", "save_png", "insert_pdf"}
StepsAfterCopy == {"overlay", "insert_image", "insert_link"}

\* One iteration of the page loop in which nothing raises.
ProcessPdfPage ==
    /\ entry = "process_pdf" /\ pc = "loop" /\ page_num < num_pages
    /\ \E images \in ImageLists, tables \in TableLists :
         LET page == PlumberPage(page_num, images, tables)
             regions == Relabel(segmenter, page_num,
                            extract_article_regions(segmenter, page, page_num = 0))
         IN  /\ article_regions' = regions
             /\ page_plumber' = page
             /\ output_pdf' = Append(output_pdf,
                    OutPage(page_num, TRUE, TRUE,
                            [i \in 1..Len(regions) |-> LinkOf(regions[i])]))
    /\ last_error' = "none"
    /\ page_num' = page_num + 1
    /\ UNCHANGED <<parser_vars, translation_vars, entry, segmenter, first_run, workers, page_contours,
                   num_pages, pc, errors, uploads, adaptive_rects,
                   canny_rects, filtered_rects, article_urls, saved_articles>>

\* One iteration in which a step of the try block raises: the except
\* branch prints the page and inserts the source page into the output
\* (the insert_pdf of the except branch itself is taken to succeed).
\* `done` is the number of links inserted before insert_link raised.
ProcessPdfPageRaises ==
    /\ entry = "process_pdf" /\ pc = "loop" /\ page_num < num_pages
    /\ \E step \in StepsBeforeCopy \cup StepsAfterCopy :
         /\ last_error' = step
         /\ \/ /\ step \in StepsBeforeCopy
               /\ page_plumber' = NoPage
               /\ output_pdf' = Append(output_pdf, OutPage(page_num, FALSE, FALSE, <<>>))
            \/ /\ step = "overlay"
               /\ page_plumber' = NoPage
               /\ output_pdf' = output_pdf
                     \o << OutPage(page_num, FALSE, FALSE, <<>>),
                           OutPage(page_num, FALSE, FALSE, <<>>) >>
            \/ /\ step = "insert_image"
               /\ page_plumber' = NoPage
               /\ output_pdf' = output_pdf
                     \o << OutPage(page_num, TRUE, FALSE, <<>>),
                           OutPage(page_num, FALSE, FALSE, <<>>) >>
            \/ /\ step = "insert_link"
               /\ \E images \in ImageLists, tables \in TableLists :
                    LET page == PlumberPage(page_num, images, tables)
                        regions == Relabel(segmenter, page_num,
                            extract_article_regions(segmenter, page, page_num = 0))
                    IN  \E done \in 0..(Len(regions) - 1) :
                          /\ page_plumber' = page
                          /\ output_pdf' = output_pdf
                                \o << OutPage(page_num, TRUE, TRUE,
                                          [i \in 1..done |-> LinkOf(regions[i])]),
                                      OutPage(page_num, FALSE, FALSE, <<>>) >>
    /\ article_regions' = <<>>
    /\ errors' = Append(errors, page_num)
    /\ page_num' = page_num + 1
    /\ UNCHANGED <<parser_vars, translation_vars, entry, segmenter, first_run, workers, page_contours,
                   num_pages, pc, uploads, adaptive_rects,
                   canny_rects, filtered_rects, article_urls, saved_articles>>

\* output_pdf.save(output_path); return output_path
ProcessPdfSave ==
    /\ entry = "process_pdf" /\ pc = "loop" /\ page_num = num_pages
    /\ pc' = "done"
    /\ UNCHANGED <<parser_vars, translation_vars, entry, segmenter, first_run, workers, page_contours,
                   num_pages, page_num, output_pdf, article_regions,
                   errors, uploads, adaptive_rects, canny_rects, filtered_rects,
                   article_urls, saved_articles, page_plumber, page_contours, first_run,
          workers, last_error>>

----------------------------------------------------------------------------
(* ArticleExtractor.extract_articles_from_pdf (extract_articles.py) *)

\* One iteration of the page loop: every region returned by the segmenter
\* is rendered and uploaded under page{page_num+1}-article{idx+1}.
ExtractArticlesPage ==
    /\ entry = "extract_articles_from_pdf" /\ pc = "loop" /\ page_num < num_pages
    /\ \E images \in ImageLists, tables \in TableLists :
         LET page == PlumberPage(page_num, images, tables)
             regions == extract_article_regions(segmenter, page, page_num = 0)
         IN  /\ article_regions' = regions
             /\ page_plumber' = page
             /\ uploads' = uploads \o
                    [i \in 1..Len(regions) |->
                        [filename |-> [page |-> page_num + 1, article |-> i],
                         region |-> regions[i]]]
    /\ last_error' = "none"
    /\ page_num' = page_num + 1
    /\ UNCHANGED <<parser_vars, translation_vars, entry, segmenter, first_run, workers, page_contours,
                   num_pages, pc, output_pdf, errors, adaptive_rects,
                   canny_rects, filtered_rects, article_urls, saved_articles>>

\* The loop has no try block: an exception of the segmenter or of
\* _extract_region_as_image leaves extract_articles_from_pdf.
ExtractArticlesPageRaises ==
    /\ entry = "extract_articles_from_pdf" /\ pc = "loop" /\ page_num < num_pages
    /\ pc' = "raised"
    /\ last_error' = "extract"
    /\ UNCHANGED <<parser_vars, translation_vars, entry, segmenter, first_run, workers, page_contours,
                   num_pages, page_num, output_pdf, article_regions,
                   errors, uploads, adaptive_rects, canny_rects, filtered_rects,
                   article_urls, saved_articles, page_plumber>>

\* return pdf_dir
ExtractArticlesReturn ==
    /\ entry = "extract_articles_from_pdf" /\ pc = "loop" /\ page_num = num_pages
    /\ pc' = "done"
    /\ UNCHANGED <<parser_vars, translation_vars, entry, segmenter, first_run, workers, page_contours,
                   num_pages, page_num, output_pdf, article_regions,
                   errors, uploads, adaptive_rects, canny_rects, filtered_rects,
                   article_urls, saved_articles, page_plumber, page_contours, first_run,
          workers, last_error>>

----------------------------------------------------------------------------
(* phase_1.py: ArticleExtractor._detect_articles_with_technique *)

min_area == 30000

min_perimeter == 500

\* What cv2.findContours, contourArea, arcLength and boundingRect report
\* for one contour: bounding rectangle (x, y, w, h), area, perimeter and
\* hierarchy parent (-1 for an outer contour).
Contour(id, x, y, w, h, area, perimeter, parent) ==
    [id |-> id, x |-> x, y |-> y, w |-> w, h |-> h,
     area |-> area, perimeter |-> perimeter, parent |-> parent]

\* a rectangular outline of w x h pixels
RectContour(id, x, y, w, h) ==
    Contour(id, x, y, w, h, (w - 1) * (h - 1), 2 * ((w - 1) + (h - 1)), -1)

CntA      == RectContour("A", 100, 200, 300, 300)       \* box [100,200,400,500]
CntB      == RectContour("B", 110, 205, 280, 290)       \* box [110,205,390,495], inside A
CntHalf   == RectContour("Half", 250, 200, 300, 300)    \* covers exactly half of A
CntMostly == RectContour("Mostly", 150, 250, 300, 300)  \* covers 69% of A, 56% of Half
CntSide   == RectContour("Side", 290, 300, 200, 200)    \* 55% of it lies in A, 24% of A
CntFar    == RectContour("Far", 450, 600, 300, 300)     \* apart from A
CntSmall  == RectContour("Small", 600, 200, 100, 100)   \* area below min_area
CntTop    == RectContour("Top", 100, 100, 300, 300)     \* starts above ignore_height
CntInner  == Contour("Inner", 450, 600, 300, 300, 89401, 1196, 0)   \* has a parent
CntPage   == RectContour("Page", 0, 145, 800, 855)      \* all of the page below ignore_height

CntC      == RectContour("C", 120, 210, 250, 270)       \* inside B, which is inside A
CntA2     == RectContour("A2", 100, 200, 300, 300)      \* the box of A once more
CntEdge   == RectContour("Edge", 100, 210, 250, 250)    \* in A, left edge on A's left edge

\* contours on the boundary values of the contour tests, and just off them
CntMinArea   == RectContour("MinArea", 10, 150, 151, 201)       \* area exactly 30000
CntJustSmall == Contour("JustSmall", 200, 300, 151, 201, 29999, 700, -1)
CntWide      == RectContour("Wide", 200, 150, 500, 100)         \* w / h exactly 5.0
CntTooWide   == RectContour("TooWide", 200, 600, 501, 100)
CntTall      == RectContour("Tall", 10, 400, 100, 500)          \* w / h exactly 0.2
CntTooTall   == RectContour("TooTall", 120, 400, 100, 501)
CntAtIgnore  == RectContour("AtIgnore", 400, 145, 200, 200)     \* y exactly ignore_height
CntJustAbove == RectContour("JustAbove", 550, 144, 200, 200)
CntFull      == RectContour("Full", 0, 0, 800, 1000)            \* the page outline

\* contour lists for single-page detection: nesting chains, equal boxes,
\* shared edges, boundary values
NestingContours == <<CntB, CntA, CntC, CntEdge, CntA2>>

BoundaryContours ==
    <<CntMinArea, CntJustSmall, CntWide, CntTooWide, CntInner, CntTall, CntTooTall,
      CntAtIgnore, CntJustAbove, CntFull>>

\* contours found on the 'adaptive' binarization of a page
AdaptiveContourLists ==
    { <<>>, <<CntA>>, <<CntA, CntFar>>, <<CntB, CntA>>, <<CntTop, CntSmall, CntInner, CntPage>> }

CntOuter == RectContour("Outer", 90, 190, 320, 320)     \* box [90,190,410,510], around A
CntFarIn == RectContour("FarIn", 500, 650, 180, 180)    \* box [500,650,680,830], inside Far

\* the adaptive contour lists of single-page detection
RerunAdaptiveContourLists ==
    AdaptiveContourLists \cup {NestingContours, BoundaryContours}

\* contours found on the 'canny' binarization of a page
CannyContourLists ==
    { <<>>, <<CntB>>, <<CntHalf, CntMostly>>, <<CntMostly, CntHalf>>, <<CntSide, CntFar>> }

\* the canny contour lists of single-page detection
RerunCannyContourLists ==
    CannyContourLists \cup {<<CntB, CntOuter, CntFarIn>>}

\* ClosedContour with a seeded fault: `<=` for `<` on the area
ClosedContourAboveMin(cnt, width, height) ==
    /\ cnt.parent = -1
    /\ ~(cnt.area <= min_area \/ cnt.area * 10 > width * height * 9)
    /\ ~(cnt.perimeter < min_perimeter)
    /\ ~(cnt.w * 5 < cnt.h \/ cnt.w > cnt.h * 5)

\* the tests of the contour loop (lines 80-91)
ClosedContour(cnt, width, height) ==
    /\ cnt.parent = -1
    /\ ~(cnt.area < min_area \/ cnt.area * 10 > width * height * 9)
    /\ ~(cnt.perimeter < min_perimeter)
    /\ ~(cnt.w * 5 < cnt.h \/ cnt.w > cnt.h * 5)

\* StrictlyInside with a seeded fault: shared edges count as inside
InsideOrOnEdge(r1, r2) ==
    /\ r1.x >= r2.x /\ r1.y >= r2.y
    /\ r1.x + r1.w <= r2.x + r2.w /\ r1.y + r1.h <= r2.y + r2.h

\* x1 > x2 and y1 > y2 and x1 + w1 < x2 + w2 and y1 + h1 < y2 + h2
StrictlyInside(r1, r2) ==
    /\ r1.x > r2.x /\ r1.y > r2.y
    /\ r1.x + r1.w < r2.x + r2.w /\ r1.y + r1.h < r2.y + r2.h

\* filtered_rects of one technique on the contours it found; gray has
\* shape (height, width)
detect_articles_with_technique(contours, width, height, ignore_height, technique) ==
    LET closed == SelectSeq(contours, LAMBDA c : ClosedContour(c, width, height))
        below == SelectSeq(closed, LAMBDA c : ~(c.y < ignore_height))
        rects == [i \in 1..Len(below) |->
                    [x |-> below[i].x, y |-> below[i].y, w |-> below[i].w,
                     h |-> below[i].h, cnt |-> <<technique, below[i].id>>]]
        keep == [i \in 1..Len(rects) |->
                    ~\E j \in 1..Len(rects) : j # i /\ StrictlyInside(rects[i], rects[j])]
        idx == SeqFilterIdx(keep, 1, Len(rects))
    IN  [k \in 1..Len(idx) |-> rects[idx[k]]]

----------------------------------------------------------------------------
(* phase_1.py: ArticleExtractor._rects_overlap and the hybrid merge *)

InterArea(r1, r2) ==
    LET xa == Max(r1.x, r2.x)
        ya == Max(r1.y, r2.y)
        xb == Min(r1.x + r1.w, r2.x + r2.w)
        yb == Min(r1.y + r1.h, r2.y + r2.h)
    IN  Max(0, xb - xa) * Max(0, yb - ya)

\* rects_overlap with a seeded fault: `and` for `or`
rects_overlap_both(r1, r2) ==
    LET area1 == r1.w * r1.h
        area2 == r2.w * r2.h
    IN  IF area1 = 0 \/ area2 = 0 THEN FALSE
        ELSE 2 * InterArea(r1, r2) > area1 /\ 2 * InterArea(r1, r2) > area2

\* rects_overlap with a seeded fault: overlap1 is left out
rects_overlap_second(r1, r2) ==
    LET area1 == r1.w * r1.h
        area2 == r2.w * r2.h
    IN  IF area1 = 0 \/ area2 = 0 THEN FALSE
        ELSE 2 * InterArea(r1, r2) > area2

\* thresh = 0.5: inter_area / area > 0.5 is 2 * inter_area > area
rects_overlap(r1, r2) ==
    LET area1 == r1.w * r1.h
        area2 == r2.w * r2.h
    IN  IF area1 = 0 \/ area2 = 0 THEN FALSE
        ELSE 2 * InterArea(r1, r2) > area1 \/ 2 * InterArea(r1, r2) > area2

RECURSIVE MergeFrom(_, _, _)
\* for c_rect in canny_rects[k:]: append unless it overlaps a rect of merged
MergeFrom(merged, canny, k) ==
    IF k > Len(canny) THEN merged
    ELSE IF \E i \in 1..Len(merged) : rects_overlap(canny[k], merged[i])
         THEN MergeFrom(merged, canny, k + 1)
         ELSE MergeFrom(Append(merged, canny[k]), canny, k + 1)

\* MergeRects with a seeded fault: the two passes are taken the other way round
MergeRectsCannyFirst(adaptive, canny) == MergeFrom(canny, adaptive, 1)

\* merged_rects = list(adaptive_rects); then the loop over canny_rects
MergeRects(adaptive, canny) == MergeFrom(adaptive, canny, 1)

----------------------------------------------------------------------------
(* phase_1.py: ArticleExtractor.detect_and_extract_articles *)

\* ignore_height = int(pix.height * 0.145)
IgnoreHeight(height) == (height * 145) \div 1000

\* filename = f"page{page_num + 1}-article{idx + 1}" for enumerate's idx;
\* i is the 1-based position in filtered_rects
ArticleFilename(n, i) == [page |-> n + 1, article |-> (i - 1) + 1]

\* what the upload API answers for a file it stored
PublicUrl(filename) == [public_url |-> filename]

RectBox(r) == <<r.x, r.y, r.x + r.w, r.y + r.h>>

\* article_urls after the uploads of one page; `stored` are the positions
\* whose upload returned a response
UrlsAfter(urls, n, stored) ==
    LET new == {ArticleFilename(n, i) : i \in stored}
    IN  [f \in DOMAIN urls \cup new |-> IF f \in new THEN PublicUrl(f) ELSE urls[f]]

\* "Add clickable links for each article": only for filenames in article_urls
LinksOf(rects, urls, n) ==
    LET has == [i \in 1..Len(rects) |-> ArticleFilename(n, i) \in DOMAIN urls]
        idx == SeqFilterIdx(has, 1, Len(rects))
    IN  [k \in 1..Len(idx) |->
            [kind |-> "LINK_URI", uri |-> urls[ArticleFilename(n, idx[k])],
             from |-> RectBox(rects[idx[k]])]]

SavedOf(rects, n, upto) ==
    [i \in 1..upto |-> [filename |-> ArticleFilename(n, i), rect |-> rects[i]]]

\* One iteration of the page loop in which nothing raises.
DetectPage ==
    /\ entry = "detect_and_extract_articles" /\ pc = "loop" /\ page_num < num_pages
    /\ \E a_contours \in AdaptiveContourLists, c_contours \in CannyContourLists :
         LET ignore_height == IgnoreHeight(PageSize.height)
             a_rects == detect_articles_with_technique(
                            a_contours, PageSize.width, PageSize.height,
                            ignore_height, "adaptive")
             c_rects == detect_articles_with_technique(
                            c_contours, PageSize.width, PageSize.height,
                            ignore_height, "canny")
             merged == MergeRects(a_rects, c_rects)
         IN  /\ adaptive_rects' = a_rects
             /\ canny_rects' = c_rects
             /\ filtered_rects' = merged
             /\ saved_articles' = saved_articles \o SavedOf(merged, page_num, Len(merged))
             /\ \E stored \in SUBSET (1..Len(merged)) :
                  /\ article_urls' = UrlsAfter(article_urls, page_num, stored)
                  /\ output_pdf' = Append(output_pdf,
                         OutPage(page_num, TRUE, FALSE,
                                 LinksOf(merged, article_urls', page_num)))
    /\ last_error' = "none"
    /\ page_num' = page_num + 1
    /\ UNCHANGED <<parser_vars, translation_vars, entry, segmenter, first_run, workers, page_contours,
                   num_pages, pc, article_regions, errors, uploads,
                   page_plumber>>

\* One iteration in which a step raises.  The loop has no try block, so
\* the exception leaves detect_and_extract_articles: no later page is
\* processed and output_pdf.save is not reached.  When cv2.imwrite raises
\* for article k, the articles before it were written and uploaded.
DetectPageRaises ==
    /\ entry = "detect_and_extract_articles" /\ pc = "loop" /\ page_num < num_pages
    /\ \E step \in {"get_pixmap", "adaptive", "canny", "imwrite"} :
         /\ last_error' = step
         /\ \/ /\ step # "imwrite"
               /\ UNCHANGED <<parser_vars, translation_vars, adaptive_rects, canny_rects, filtered_rects,
                              article_urls, saved_articles>>
            \/ /\ step = "imwrite"
               /\ \E a_contours \in AdaptiveContourLists,
                     c_contours \in CannyContourLists :
                    LET ignore_height == IgnoreHeight(PageSize.height)
                        a_rects == detect_articles_with_technique(
                                       a_contours, PageSize.width, PageSize.height,
                                       ignore_height, "adaptive")
                        c_rects == detect_articles_with_technique(
                                       c_contours, PageSize.width, PageSize.height,
                                       ignore_height, "canny")
                        merged == MergeRects(a_rects, c_rects)
                    IN  /\ adaptive_rects' = a_rects
                        /\ canny_rects' = c_rects
                        /\ filtered_rects' = merged
                        /\ \E k \in 1..Len(merged) :
                             /\ saved_articles' =
                                    saved_articles \o SavedOf(merged, page_num, k - 1)
                             /\ \E stored \in SUBSET (1..(k - 1)) :
                                  article_urls' = UrlsAfter(article_urls, page_num, stored)
    /\ pc' = "raised"
    /\ UNCHANGED <<parser_vars, translation_vars, entry, segmenter, first_run, workers, page_contours,
                   num_pages, page_num, output_pdf, article_regions,
                   errors, uploads, page_plumber>>

\* output_pdf.save(analyzed_pdf_path); return analyzed_pdf_path, article_urls
DetectSave ==
    /\ entry = "detect_and_extract_articles" /\ pc = "loop" /\ page_num = num_pages
    /\ pc' = "done"
    /\ UNCHANGED <<parser_vars, translation_vars, entry, segmenter, first_run, workers, page_contours,
                   num_pages, page_num, output_pdf, article_regions,
                   errors, uploads, adaptive_rects, canny_rects, filtered_rects,
                   article_urls, saved_articles, page_plumber, page_contours, first_run,
          workers, last_error>>

----------------------------------------------------------------------------
(* The run: one entry point, page after page *)

Next ==
    \/ ProcessPdfPage
    \/ ProcessPdfPageRaises
    \/ ProcessPdfSave
    \/ ExtractArticlesPage
    \/ ExtractArticlesPageRaises
    \/ ExtractArticlesReturn
    \/ DetectPage
    \/ DetectPageRaises
    \/ DetectSave

Spec == Init /\ [][Next]_vars

----------------------------------------------------------------------------
(* Repeated detection: the same object detects a page, possibly another    *)
(* page after it, and then the first page once more                        *)

\* what is kept of the first call: page index, input and result
RunRecord(n, input, result) == [n |-> n, input |-> input, result |-> result]

InitRerun ==
    /\ Init
    /\ entry \in {"process_pdf", "detect_and_extract_articles"}
    /\ num_pages = MaxPages

\* lines 107-113 of process_pdf on page n of the document:
\* _extract_article_regions and the relabelling of its result
SegmenterRegions(n, page) ==
    Relabel(segmenter, n, extract_article_regions(segmenter, page, n = 0))

\* lines 197-207 of detect_and_extract_articles: the two passes on the
\* contours of a page and the hybrid merge
DetectPasses(contours) ==
    LET ignore_height == IgnoreHeight(PageSize.height)
        a_rects == detect_articles_with_technique(
                       contours.adaptive, PageSize.width, PageSize.height,
                       ignore_height, "adaptive")
        c_rects == detect_articles_with_technique(
                       contours.canny, PageSize.width, PageSize.height,
                       ignore_height, "canny")
    IN  [adaptive |-> a_rects, canny |-> c_rects, merged |-> MergeRects(a_rects, c_rects)]

\* The first call, and one call on any page after it.
RunSegmenterOnPage ==
    /\ entry = "process_pdf" /\ pc \in {"loop", "first"}
    /\ \E n \in 0..(num_pages - 1), images \in ImageLists, tables \in TableLists :
         LET page == PlumberPage(n, images, tables)
             regions == SegmenterRegions(n, page)
         IN  /\ article_regions' = regions
             /\ page_plumber' = page
             /\ page_num' = n + 1
             /\ first_run' = IF pc = "loop"
                              THEN <<RunRecord(n, page, regions)>> ELSE first_run
    /\ pc' = IF pc = "loop" THEN "first" ELSE "between"
    /\ UNCHANGED <<parser_vars, translation_vars, entry, segmenter, workers, page_contours, num_pages, output_pdf,
                   errors, uploads, adaptive_rects, canny_rects, filtered_rects,
                   article_urls, saved_articles, last_error>>

\* The page of the first call is given to the segmenter once more.
RerunSegmenterOnPage ==
    /\ entry = "process_pdf" /\ pc \in {"first", "between"}
    /\ article_regions' = SegmenterRegions(first_run[1].n, first_run[1].input)
    /\ page_plumber' = first_run[1].input
    /\ page_num' = first_run[1].n + 1
    /\ pc' = "again"
    /\ UNCHANGED <<parser_vars, translation_vars, entry, segmenter, first_run, workers, page_contours, num_pages,
                   output_pdf, errors, uploads, adaptive_rects, canny_rects,
                   filtered_rects, article_urls, saved_articles, last_error>>

\* The first call of the pixel strategy, and one call on any page after it.
RunDetectOnPage ==
    /\ entry = "detect_and_extract_articles" /\ pc \in {"loop", "first"}
    /\ \E n \in 0..(num_pages - 1),
          a_contours \in RerunAdaptiveContourLists, c_contours \in RerunCannyContourLists :
         LET contours == [adaptive |-> a_contours, canny |-> c_contours]
             passes == DetectPasses(contours)
         IN  /\ page_contours' = contours
             /\ adaptive_rects' = passes.adaptive
             /\ canny_rects' = passes.canny
             /\ filtered_rects' = passes.merged
             /\ page_num' = n + 1
             /\ first_run' = IF pc = "loop"
                              THEN <<RunRecord(n, contours, passes.merged)>>
                              ELSE first_run
    /\ pc' = IF pc = "loop" THEN "first" ELSE "between"
    /\ UNCHANGED <<parser_vars, translation_vars, entry, segmenter, workers, num_pages, output_pdf,
                   article_regions, errors, uploads, article_urls, saved_articles,
                   page_plumber, last_error>>

\* The page of the first call is binarized and detected once more.
RerunDetectOnPage ==
    /\ entry = "detect_and_extract_articles" /\ pc \in {"first", "between"}
    /\ LET passes == DetectPasses(first_run[1].input)
       IN  /\ adaptive_rects' = passes.adaptive
           /\ canny_rects' = passes.canny
           /\ filtered_rects' = passes.merged
    /\ page_contours' = first_run[1].input
    /\ page_num' = first_run[1].n + 1
    /\ pc' = "again"
    /\ UNCHANGED <<parser_vars, translation_vars, entry, segmenter, first_run, workers, num_pages, output_pdf,
                   article_regions, errors, uploads, article_urls, saved_articles,
                   page_plumber, last_error>>

NextRerun ==
    \/ RunSegmenterOnPage
    \/ RerunSegmenterOnPage
    \/ RunDetectOnPage
    \/ RerunDetectOnPage

SpecRerun == InitRerun /\ [][NextRerun]_vars

----------------------------------------------------------------------------
(* Page workers: the body of the page loop runs once per page, each on its *)
(* own worker, the workers taking their statements in any interleaving.    *)
(* What the loop body shares in the code is shared here: the output        *)
(* document and, in phase_1, the article_urls dictionary.                  *)

\* locals of one page's pipeline: position, the page read, the Region
\* list, the links to insert, and `page` (position in output_pdf of the
\* page object bound by `page = output_pdf[-1]`, 0 before that statement)
Worker(at, input, regions, links, page) ==
    [pc |-> at, input |-> input, regions |-> regions, links |-> links, page |-> page]

InitWorkers ==
    /\ entry \in {"process_pdf", "detect_and_extract_articles"}
    /\ segmenter = (IF entry = "process_pdf" THEN DefaultSegmenter ELSE NoSegmenter)
    /\ num_pages = MaxPages
    /\ workers = [n \in 0..(num_pages - 1) |-> Worker("start", <<>>, <<>>, <<>>, 0)]
    /\ page_num = 0
    /\ pc = "loop"
    /\ output_pdf = <<>>
    /\ article_regions = <<>>
    /\ errors = <<>>
    /\ uploads = <<>>
    /\ adaptive_rects = <<>>
    /\ canny_rects = <<>>
    /\ filtered_rects = <<>>
    /\ article_urls = <<>>
    /\ saved_articles = <<>>
    /\ page_plumber = NoPage
    /\ page_contours = NoContours
    /\ first_run = <<>>
    /\ last_error = "none"
    /\ files = NoFiles
    /\ analyze = NoCall
    /\ region_text = <<>>
    /\ regions_by_language = <<>>

\* process_pdf lines 96-130 on page n: read the page, detect and relabel
\* its Regions, draw the visualization; all into locals.
WorkerExtractRegions ==
    /\ entry = "process_pdf"
    /\ \E n \in DOMAIN workers, images \in ImageLists, tables \in TableLists :
         /\ workers[n].pc = "start"
         /\ LET page == PlumberPage(n, images, tables)
                regions == SegmenterRegions(n, page)
            IN  workers' = [workers EXCEPT ![n] =
                    Worker("detected", page, regions,
                           [i \in 1..Len(regions) |-> LinkOf(regions[i])], 0)]
    /\ UNCHANGED <<parser_vars, translation_vars, entry, segmenter, first_run, page_contours, num_pages, page_num, pc,
                   output_pdf, article_regions, errors, uploads, adaptive_rects,
                   canny_rects, filtered_rects, article_urls, saved_articles,
                   page_plumber, last_error>>

\* detect_and_extract_articles lines 170-262 on page n: detect the
\* rectangles, write and upload the article files of the page (file names
\* and article_urls keys hold the page number), write the visualization.
WorkerDetectArticles ==
    /\ entry = "detect_and_extract_articles"
    /\ \E n \in DOMAIN workers,
          a_contours \in AdaptiveContourLists, c_contours \in CannyContourLists :
         /\ workers[n].pc = "start"
         /\ LET contours == [adaptive |-> a_contours, canny |-> c_contours]
                merged == DetectPasses(contours).merged
            IN  /\ saved_articles' = saved_articles \o SavedOf(merged, n, Len(merged))
                /\ \E stored \in SUBSET (1..Len(merged)) :
                     /\ article_urls' = UrlsAfter(article_urls, n, stored)
                     /\ workers' = [workers EXCEPT ![n] =
                            Worker("detected", contours, merged,
                                   LinksOf(merged, article_urls', n), 0)]
    /\ UNCHANGED <<parser_vars, translation_vars, entry, segmenter, first_run, page_contours, num_pages, page_num, pc,
                   output_pdf, article_regions, errors, uploads, adaptive_rects,
                   canny_rects, filtered_rects, page_plumber, last_error>>

\* output_pdf.insert_pdf(source_pdf, from_page=page_num, to_page=page_num)
WorkerInsertPdf ==
    /\ \E n \in DOMAIN workers :
         /\ workers[n].pc = "detected"
         /\ output_pdf' = Append(output_pdf, OutPage(n, FALSE, FALSE, <<>>))
         /\ workers' = [workers EXCEPT ![n].pc = "copied"]
    /\ UNCHANGED <<parser_vars, translation_vars, entry, segmenter, first_run, page_contours, num_pages, page_num, pc,
                   article_regions, errors, uploads, adaptive_rects, canny_rects,
                   filtered_rects, article_urls, saved_articles, page_plumber,
                   last_error>>

\* page = output_pdf[-1]
WorkerGetLastPage ==
    /\ \E n \in DOMAIN workers :
         /\ workers[n].pc = "copied"
         /\ workers' = [workers EXCEPT ![n].pc = "bound", ![n].page = Len(output_pdf)]
    /\ UNCHANGED <<parser_vars, translation_vars, entry, segmenter, first_run, page_contours, num_pages, page_num, pc,
                   output_pdf, article_regions, errors, uploads, adaptive_rects,
                   canny_rects, filtered_rects, article_urls, saved_articles,
                   page_plumber, last_error>>

\* the overlay, the visualization image (process_pdf only) and the links,
\* all drawn on `page`
WorkerAnnotate ==
    /\ \E n \in DOMAIN workers :
         /\ workers[n].pc = "bound"
         /\ output_pdf' = [output_pdf EXCEPT ![workers[n].page] =
                [@ EXCEPT !.overlay = TRUE,
                          !.image = (@ \/ entry = "process_pdf"),
                          !.links = @ \o workers[n].links]]
         /\ workers' = [workers EXCEPT ![n].pc = "done"]
    /\ UNCHANGED <<parser_vars, translation_vars, entry, segmenter, first_run, page_contours, num_pages, page_num, pc,
                   article_regions, errors, uploads, adaptive_rects, canny_rects,
                   filtered_rects, article_urls, saved_articles, page_plumber,
                   last_error>>

NextWorkers ==
    \/ WorkerExtractRegions
    \/ WorkerDetectArticles
    \/ WorkerInsertPdf
    \/ WorkerGetLastPage
    \/ WorkerAnnotate

SpecWorkers == InitWorkers /\ [][NextWorkers]_vars

----------------------------------------------------------------------------
(* process_pdf statement by statement: the page loop of lines 91-163 with  *)
(* the position of every page in its iteration. Pages are handled one      *)
(* after the other; workers[n] holds the locals of page n's iteration.     *)

InitPages ==
    /\ entry = "process_pdf"
    /\ segmenter = DefaultSegmenter
    /\ num_pages \in 1..MaxPages
    /\ workers = [n \in 0..(num_pages - 1) |-> Worker("start", NoPage, <<>>, <<>>, 0)]
    /\ page_num = 0
    /\ pc = "loop"
    /\ output_pdf = <<>>
    /\ article_regions = <<>>
    /\ errors = <<>>
    /\ uploads = <<>>
    /\ adaptive_rects = <<>>
    /\ canny_rects = <<>>
    /\ filtered_rects = <<>>
    /\ article_urls = <<>>
    /\ saved_articles = <<>>
    /\ page_plumber = NoPage
    /\ page_contours = NoContours
    /\ first_run = <<>>
    /\ last_error = "none"
    /\ files = NoFiles
    /\ analyze = NoCall
    /\ region_text = <<>>
    /\ regions_by_language = <<>>

\* what pdfplumber reports on the pages of the statement-by-statement runs
PageImageLists == { <<>>, <<ImgAbove, ImgNormal>> }
PageTableLists == { <<>>, <<TblNormal>> }

\* the iteration of page page_num is at position `at`
PageAt(at) ==
    /\ entry = "process_pdf" /\ pc = "loop" /\ page_num < num_pages
    /\ workers[page_num].pc = at

\* lines 96-205: the page is read and `images = page.images`
PageReadImages ==
    /\ PageAt("start")
    /\ \E images \in PageImageLists :
         workers' = [workers EXCEPT ![page_num] =
             Worker("images", PlumberPage(page_num, images, <<>>), <<>>, <<>>, 0)]
    /\ UNCHANGED <<parser_vars, translation_vars, entry, segmenter, first_run, page_contours, num_pages, page_num, pc,
                   output_pdf, article_regions, errors, uploads, adaptive_rects,
                   canny_rects, filtered_rects, article_urls, saved_articles,
                   page_plumber, last_error>>

\* lines 208-263: the image loop tests each image and appends its Region
PageImageLoop ==
    /\ PageAt("images")
    /\ workers' = [workers EXCEPT ![page_num].pc = "images_done",
                                  ![page_num].regions =
                       extract_article_regions(segmenter, workers[page_num].input,
                                               page_num = 0)]
    /\ UNCHANGED <<parser_vars, translation_vars, entry, segmenter, first_run, page_contours, num_pages, page_num, pc,
                   output_pdf, article_regions, errors, uploads, adaptive_rects,
                   canny_rects, filtered_rects, article_urls, saved_articles,
                   page_plumber, last_error>>

\* line 266: tables = page.find_tables()
PageFindTables ==
    /\ PageAt("images_done")
    /\ \E tables \in PageTableLists :
         workers' = [workers EXCEPT ![page_num].pc = "tables",
                                    ![page_num].input =
                         PlumberPage(page_num, workers[page_num].input.images, tables)]
    /\ UNCHANGED <<parser_vars, translation_vars, entry, segmenter, first_run, page_contours, num_pages, page_num, pc,
                   output_pdf, article_regions, errors, uploads, adaptive_rects,
                   canny_rects, filtered_rects, article_urls, saved_articles,
                   page_plumber, last_error>>

\* lines 268-323: the table loop appends to the same list, which is
\* returned to line 107 of process_pdf
PageTableLoop ==
    /\ PageAt("tables")
    /\ LET regions == extract_article_regions(segmenter, workers[page_num].input,
                                              page_num = 0)
       IN  /\ workers' = [workers EXCEPT ![page_num].pc = "returned",
                                         ![page_num].regions = regions]
           /\ article_regions' = regions
    /\ page_plumber' = workers[page_num].input
    /\ UNCHANGED <<parser_vars, translation_vars, entry, segmenter, first_run, page_contours, num_pages, page_num, pc,
                   output_pdf, errors, uploads, adaptive_rects,
                   canny_rects, filtered_rects, article_urls, saved_articles,
                   last_error>>

\* lines 109-126: label and url of every Region of the page
PageRelabel ==
    /\ PageAt("returned")
    /\ LET regions == Relabel(segmenter, page_num, workers[page_num].regions)
       IN  /\ workers' = [workers EXCEPT ![page_num].pc = "labeled",
                                         ![page_num].regions = regions,
                                         ![page_num].links =
                              [i \in 1..Len(regions) |-> LinkOf(regions[i])]]
           /\ article_regions' = regions
    /\ UNCHANGED <<parser_vars, translation_vars, entry, segmenter, first_run, page_contours, num_pages, page_num, pc,
                   output_pdf, errors, uploads, adaptive_rects,
                   canny_rects, filtered_rects, article_urls, saved_articles,
                   page_plumber, last_error>>

\* lines 128-135: the PNG is encoded, the page is copied into output_pdf
\* and `page = output_pdf[-1]`
PageInsertPdf ==
    /\ PageAt("labeled")
    /\ output_pdf' = Append(output_pdf, OutPage(page_num, FALSE, FALSE, <<>>))
    /\ workers' = [workers EXCEPT ![page_num].pc = "copied",
                                  ![page_num].page = Len(output_pdf) + 1]
    /\ UNCHANGED <<parser_vars, translation_vars, entry, segmenter, first_run, page_contours, num_pages, page_num, pc,
                   article_regions, errors, uploads, adaptive_rects,
                   canny_rects, filtered_rects, article_urls, saved_articles,
                   page_plumber, last_error>>

\* lines 137-158: overlay, visualization and links on `page`; the
\* iteration ends
PageAnnotate ==
    /\ PageAt("copied")
    /\ output_pdf' = [output_pdf EXCEPT ![workers[page_num].page] =
           OutPage(page_num, TRUE, TRUE, workers[page_num].links)]
    /\ workers' = [workers EXCEPT ![page_num].pc = "done"]
    /\ last_error' = "none"
    /\ page_num' = page_num + 1
    /\ UNCHANGED <<parser_vars, translation_vars, entry, segmenter, first_run, page_contours, num_pages, pc,
                   article_regions, errors, uploads, adaptive_rects,
                   canny_rects, filtered_rects, article_urls, saved_articles,
                   page_plumber>>

\* the copy of the page after a step of lines 137-158 raised
PartlyAnnotated(n, step, links, done) ==
    CASE step = "overlay" -> OutPage(n, FALSE, FALSE, <<>>)
      [] step = "insert_image" -> OutPage(n, TRUE, FALSE, <<>>)
      [] OTHER -> OutPage(n, TRUE, TRUE, SubSeq(links, 1, done))

\* PageRaises with a seeded fault: there is no except branch, the
\* exception leaves process_pdf
PageRaisesUncaught ==
    /\ \E at \in {"start", "images", "images_done", "tables", "returned", "labeled"} :
         PageAt(at)
    /\ pc' = "raised"
    /\ last_error' = "extract"
    /\ errors' = Append(errors, page_num)
    /\ UNCHANGED <<parser_vars, translation_vars, entry, segmenter, first_run, page_contours, num_pages, page_num,
                   workers, output_pdf, article_regions, uploads, adaptive_rects,
                   canny_rects, filtered_rects, article_urls, saved_articles,
                   page_plumber>>

\* lines 160-163: the statement the iteration is about to execute raises;
\* the except branch prints the page and inserts the source page, and the
\* iteration ends. After line 134 the output already holds the copy.
PageRaises ==
    /\ \/ /\ \E at \in {"start", "images", "images_done", "tables", "returned",
                           "labeled"} : PageAt(at)
          /\ last_error' = (IF workers[page_num].pc = "returned" THEN "label"
                             ELSE IF workers[page_num].pc = "labeled" THEN "insert_pdf"
                             ELSE "extract")
          /\ output_pdf' = Append(output_pdf, OutPage(page_num, FALSE, FALSE, <<>>))
       \/ /\ PageAt("copied")
          /\ \E step \in StepsAfterCopy :
               /\ step = "insert_link" => workers[page_num].links # <<>>
               /\ last_error' = step
               /\ \E done \in 0..Max(0, Len(workers[page_num].links) - 1) :
                    output_pdf' =
                        [output_pdf EXCEPT ![workers[page_num].page] =
                            PartlyAnnotated(page_num, step, workers[page_num].links, done)]
                        \o <<OutPage(page_num, FALSE, FALSE, <<>>)>>
    /\ workers' = [workers EXCEPT ![page_num].pc = "done"]
    /\ errors' = Append(errors, page_num)
    /\ page_num' = page_num + 1
    /\ UNCHANGED <<parser_vars, translation_vars, entry, segmenter, first_run, page_contours, num_pages, pc,
                   article_regions, uploads, adaptive_rects,
                   canny_rects, filtered_rects, article_urls, saved_articles,
                   page_plumber>>

\* lines 165-171: output_pdf.save(output_path); return output_path
PagesSave ==
    /\ entry = "process_pdf" /\ pc = "loop" /\ page_num = num_pages
    /\ pc' = "done"
    /\ UNCHANGED <<parser_vars, translation_vars, entry, segmenter, first_run, page_contours, num_pages, page_num,
                   workers, output_pdf, article_regions, errors, uploads,
                   adaptive_rects, canny_rects, filtered_rects, article_urls,
                   saved_articles, page_plumber, last_error>>

NextPages ==
    \/ PageReadImages
    \/ PageImageLoop
    \/ PageFindTables
    \/ PageTableLoop
    \/ PageRelabel
    \/ PageInsertPdf
    \/ PageAnnotate
    \/ PageRaises
    \/ PagesSave

SpecPages == InitPages /\ [][NextPages]_vars

\* every statement of the loop returns or raises: the run does not stop
\* while a statement is left to execute
SpecPagesFair == SpecPages /\ WF_vars(NextPages)

----------------------------------------------------------------------------
(* layout_parser.py: LayoutParser.analyze_page on a parser constructed     *)
(* with a path. A path is the sequence of its pieces; `files` maps the     *)
(* paths that exist to the document stored there.                          *)

PaperPdf == <<"paper", ".pdf">>
NonexistentPdf == <<"nonexistent", ".pdf">>
OutPdf == <<"out", ".pdf">>
None == <<"None">>

\* page_number arguments of a call; 999 is the one of the test
PageNumbers == {-3, -2, -1, 0, 1, 2, 999}

\* page.extract_words() of pdfplumber: dictionaries with x0, top, x1, bottom
WordLists == { <<>>, <<[x0 |-> 10, top |-> 20, x1 |-> 60, bottom |-> 32]>> }

\* a stored document: its number of pages and the page indexes (0-based)
\* that carry an analysis overlay
Document(pages, overlaid) == [pages |-> pages, overlaid |-> overlaid]

\* seq[k] of a Python list or a fitz document of length n: the 0-based
\* position it denotes, or -1 where Python raises IndexError
PyIndex(k, n) ==
    IF 0 <= k /\ k < n THEN k
    ELSE IF -n <= k /\ k < 0 THEN k + n
    ELSE -1

\* str.replace('.pdf', '_analyzed.pdf')
ReplacePdf(path) ==
    [i \in 1..Len(path) |-> IF path[i] = ".pdf" THEN "_analyzed.pdf" ELSE path[i]]

\* LayoutParser(pdf_path).analyze_page(page_number, display, output_path)
\* is called; one document of num_pages pages is on disk
InitAnalyze ==
    /\ entry = "analyze_page"
    /\ segmenter = NoSegmenter
    /\ num_pages \in 1..MaxPages
    /\ files = [p \in {PaperPdf} |-> Document(num_pages, {})]
    /\ \E pdf_path \in {PaperPdf, NonexistentPdf}, page_number \in PageNumbers,
          display \in BOOLEAN, output_path \in {None, OutPdf} :
         analyze = [pdf_path |-> pdf_path, page_number |-> page_number,
                    display |-> display, output_path |-> output_path,
                    elements |-> None, result |-> None]
    /\ page_num = 0
    /\ pc = "call"
    /\ output_pdf = <<>>
    /\ article_regions = <<>>
    /\ errors = <<>>
    /\ uploads = <<>>
    /\ adaptive_rects = <<>>
    /\ canny_rects = <<>>
    /\ filtered_rects = <<>>
    /\ article_urls = <<>>
    /\ saved_articles = <<>>
    /\ page_plumber = NoPage
    /\ page_contours = NoContours
    /\ first_run = <<>>
    /\ workers = <<>>
    /\ last_error = "none"
    /\ region_text = <<>>
    /\ regions_by_language = <<>>

\* line 20: pdfplumber.open(self.pdf_path) raises when no such file exists
AnalyzeOpenRaises ==
    /\ entry = "analyze_page" /\ pc = "call"
    /\ analyze.pdf_path \notin DOMAIN files
    /\ pc' = "raised"
    /\ last_error' = "open"
    /\ UNCHANGED <<parser_vars, translation_vars, entry, segmenter, first_run, workers,
                   page_contours, num_pages, page_num, output_pdf, article_regions,
                   errors, uploads, adaptive_rects, canny_rects, filtered_rects,
                   article_urls, saved_articles, page_plumber>>

\* line 21: pdf.pages[page_number] on the list of pages raises IndexError
AnalyzeIndexRaises ==
    /\ entry = "analyze_page" /\ pc = "call"
    /\ analyze.pdf_path \in DOMAIN files
    /\ PyIndex(analyze.page_number, files[analyze.pdf_path].pages) = -1
    /\ pc' = "raised"
    /\ last_error' = "index"
    /\ UNCHANGED <<parser_vars, translation_vars, entry, segmenter, first_run, workers,
                   page_contours, num_pages, page_num, output_pdf, article_regions,
                   errors, uploads, adaptive_rects, canny_rects, filtered_rects,
                   article_urls, saved_articles, page_plumber>>

\* lines 20-30 and _extract_elements (41-72): the page is read and the
\* record of its words, tables and images is built
AnalyzeExtract ==
    /\ entry = "analyze_page" /\ pc = "call"
    /\ analyze.pdf_path \in DOMAIN files
    /\ PyIndex(analyze.page_number, files[analyze.pdf_path].pages) # -1
    /\ \E words \in WordLists, tables \in TableLists, images \in ImageLists :
         LET n == PyIndex(analyze.page_number, files[analyze.pdf_path].pages)
         IN  /\ page_plumber' = PlumberPage(n, images, tables)
             /\ page_num' = n
             /\ analyze' = [analyze EXCEPT !.elements =
                    [words |-> words, tables |-> tables, images |-> images]]
    /\ pc' = "extracted"
    /\ UNCHANGED <<files, translation_vars, entry, segmenter, first_run, workers,
                   page_contours, num_pages, output_pdf, article_regions,
                   errors, uploads, adaptive_rects, canny_rects, filtered_rects,
                   article_urls, saved_articles, last_error>>

\* the output_path of line 33
OutputPath ==
    IF analyze.output_path # None THEN analyze.output_path
    ELSE ReplacePdf(analyze.pdf_path)

\* line 34, _overlay_on_pdf (74-97): fitz opens the document, takes
\* pdf[page_number], draws on it and saves everything to output_path
AnalyzeOverlay ==
    /\ entry = "analyze_page" /\ pc = "extracted"
    /\ LET doc == files[analyze.pdf_path]
           n == PyIndex(analyze.page_number, doc.pages)
       IN  files' = [p \in DOMAIN files \cup {OutputPath} |->
                        IF p = OutputPath
                        THEN Document(doc.pages, doc.overlaid \cup {n})
                        ELSE files[p]]
    /\ pc' = "overlaid"
    /\ UNCHANGED <<analyze, translation_vars, entry, segmenter, first_run, workers,
                   page_contours, num_pages, page_num, output_pdf, article_regions,
                   errors, uploads, adaptive_rects, canny_rects, filtered_rects,
                   article_urls, saved_articles, page_plumber, last_error>>

\* a statement of _overlay_on_pdf raises (the PNG encoding, fitz, the
\* write of the output file); nothing is written
AnalyzeOverlayRaises ==
    /\ entry = "analyze_page" /\ pc = "extracted"
    /\ pc' = "raised"
    /\ last_error' = "overlay"
    /\ UNCHANGED <<parser_vars, translation_vars, entry, segmenter, first_run, workers,
                   page_contours, num_pages, page_num, output_pdf, article_regions,
                   errors, uploads, adaptive_rects, canny_rects, filtered_rects,
                   article_urls, saved_articles, page_plumber>>

\* lines 36-39: _display_pdf when display is set (it catches what the
\* viewer raises), then `return elements, output_path`
AnalyzeReturn ==
    /\ entry = "analyze_page" /\ pc = "overlaid"
    /\ analyze' = [analyze EXCEPT !.result =
           [elements |-> analyze.elements, output_path |-> OutputPath]]
    /\ pc' = "done"
    /\ UNCHANGED <<files, translation_vars, entry, segmenter, first_run, workers,
                   page_contours, num_pages, page_num, output_pdf, article_regions,
                   errors, uploads, adaptive_rects, canny_rects, filtered_rects,
                   article_urls, saved_articles, page_plumber, last_error>>

NextAnalyze ==
    \/ AnalyzeOpenRaises
    \/ AnalyzeIndexRaises
    \/ AnalyzeExtract
    \/ AnalyzeOverlay
    \/ AnalyzeOverlayRaises
    \/ AnalyzeReturn

SpecAnalyze == InitAnalyze /\ [][NextAnalyze]_vars

----------------------------------------------------------------------------
(* main.py, EpaperAutomation.process_pdf lines 85-108 on one page, and      *)
(* translator.py, Translator.translate_regions. A Region object is its     *)
(* position in region_text, which holds the object's text attribute; a     *)
(* list of Regions is a list of such references. A text is the sequence    *)
(* of its pieces.                                                          *)

\* settings.TRANSLATION
source_language == "te"
target_languages == <<"en", "hi", "ta">>

\* what pytesseract read in Region i: nothing but white space, or a text
Blank == <<>>
OcrText(i) == <<"text", ToString(i)>>

\* the texts of the Regions of a page after lines 85-87
RegionTexts ==
    UNION {{[i \in 1..k |-> IF i \in blank THEN Blank ELSE OcrText(i)] :
               blank \in SUBSET (1..k)} : k \in 1..3}

\* the translation service's rendering of a text in the target language
Translated(text, target) == Append(text, target)

\* Translator.translate_batch; `ok` is whether the requests succeeded
\* (the except branch returns the texts it was given)
translate_batch(texts, target_language, src_language, ok) ==
    IF src_language = target_language THEN texts
    ELSE IF ok THEN [i \in 1..Len(texts) |-> Translated(texts[i], target_language)]
    ELSE texts

\* Translator.translate_regions: `translated_region = region` binds the
\* same object, whose text is assigned; the result is the list of the
\* same references together with the texts of all objects afterwards
translate_regions(regions, text_of, target_language, src_language, ok) ==
    LET has_text(p) == text_of[regions[p]] # Blank
        texts == [k \in 1..Cardinality({p \in 1..Len(regions) : has_text(p)}) |->
                     text_of[regions[CHOOSE p \in 1..Len(regions) :
                         /\ has_text(p)
                         /\ Cardinality({q \in 1..p : has_text(q)}) = k]]]
        translated_texts == translate_batch(texts, target_language, src_language, ok)
        text_index(p) == Cardinality({q \in 1..p : has_text(q)})
    IN  [regions |-> regions,
         text_of |-> [r \in DOMAIN text_of |->
             IF \E p \in 1..Len(regions) :
                    regions[p] = r /\ has_text(p) /\ text_index(p) <= Len(translated_texts)
             THEN translated_texts[text_index(CHOOSE p \in 1..Len(regions) : regions[p] = r)]
             ELSE text_of[r]]]

\* lines 85-97: the Regions of the page have their texts, and
\* regions_by_language = {source_language: regions}
InitTranslate ==
    /\ entry = "translate_page"
    /\ segmenter = NoSegmenter
    /\ region_text \in RegionTexts
    /\ regions_by_language =
           [l \in {source_language} |-> [i \in 1..Len(region_text) |-> i]]
    /\ num_pages = 1
    /\ page_num = 0
    /\ pc = "loop"
    /\ output_pdf = <<>>
    /\ article_regions = <<>>
    /\ errors = <<>>
    /\ uploads = <<>>
    /\ adaptive_rects = <<>>
    /\ canny_rects = <<>>
    /\ filtered_rects = <<>>
    /\ article_urls = <<>>
    /\ saved_articles = <<>>
    /\ page_plumber = NoPage
    /\ page_contours = NoContours
    /\ first_run = <<>>
    /\ workers = <<>>
    /\ last_error = "none"
    /\ files = NoFiles
    /\ analyze = NoCall

\* the target languages the loop of line 99 has handled
TargetsDone == DOMAIN regions_by_language \ {source_language}

\* lines 99-103: one iteration of the loop over the target languages
TranslatePage ==
    /\ entry = "translate_page" /\ pc = "loop"
    /\ Cardinality(TargetsDone) < Len(target_languages)
    /\ \E ok \in BOOLEAN :
         LET target_language == target_languages[Cardinality(TargetsDone) + 1]
             regions == regions_by_language[source_language]
             result == translate_regions(regions, region_text, target_language,
                                         source_language, ok)
         IN  /\ region_text' = result.text_of
             /\ regions_by_language' =
                    [l \in DOMAIN regions_by_language \cup {target_language} |->
                        IF l = target_language THEN result.regions
                        ELSE regions_by_language[l]]
             /\ last_error' = IF ok THEN "none" ELSE "translate_batch"
    /\ UNCHANGED <<parser_vars, entry, segmenter, first_run, workers,
                   page_contours, num_pages, page_num, pc, output_pdf, article_regions,
                   errors, uploads, adaptive_rects, canny_rects, filtered_rects,
                   article_urls, saved_articles, page_plumber>>

\* lines 106-108: the loop has ended and the articles are generated from
\* regions_by_language
GenerateArticles ==
    /\ entry = "translate_page" /\ pc = "loop"
    /\ Cardinality(TargetsDone) = Len(target_languages)
    /\ pc' = "done"
    /\ UNCHANGED <<parser_vars, translation_vars, entry, segmenter, first_run, workers,
                   page_contours, num_pages, page_num, output_pdf, article_regions,
                   errors, uploads, adaptive_rects, canny_rects, filtered_rects,
                   article_urls, saved_articles, page_plumber, last_error>>

NextTranslate ==
    \/ TranslatePage
    \/ GenerateArticles

SpecTranslate == InitTranslate /\ [][NextTranslate]_vars

----------------------------------------------------------------------------
(* Facts about the page processed last, used by the properties below *)

\* an iteration of the page loop has completed without raising
PageDone == page_num > 0 /\ last_error = "none"

\* is_first_page of the iteration done last (page_num was advanced since)
LastWasFirstPage == page_num = 1

\* top margin the segmenter used on the page processed last
LastTopMargin == TopMargin(segmenter, page_plumber, LastWasFirstPage)

\* the rectangles pdfplumber reported on the page processed last
LastCandidates ==
    {ImageBox(page_plumber.images[i]) : i \in 1..Len(page_plumber.images)}
        \cup {page_plumber.tables[i] : i \in 1..Len(page_plumber.tables)}

FullPageBox == <<0, 0, PageSize.width, PageSize.height>>

UsesSegmenter == entry \in {"process_pdf", "extract_articles_from_pdf"}

Regions == {article_regions[i] : i \in 1..Len(article_regions)}

----------------------------------------------------------------------------
(* Properties *)

\* C1: every emitted Region of the metadata strategy keeps the candidate's
\* unclamped rectangle as original_box, and when that rectangle straddles
\* the top margin its box is (x0, top_margin, x1, y1).
C1_ClampKeepsOriginalBox ==
    (UsesSegmenter /\ PageDone) =>
        \A r \in Regions :
            /\ r.original_box \in LastCandidates
            /\ (r.original_box[2] < LastTopMargin /\ LastTopMargin < r.original_box[4])
                  => r.box = <<r.original_box[1], LastTopMargin,
                               r.original_box[3], r.original_box[4]>>

\* C2: a candidate equal to the full page rectangle is never emitted: no
\* Region has the full page as original_box, and when the page holds a
\* full-page candidate no Region has the box that candidate is clamped to.
C2_FullPageNeverEmitted ==
    (UsesSegmenter /\ PageDone) =>
        \A r \in Regions :
            /\ r.original_box # FullPageBox
            /\ FullPageBox \in LastCandidates
                  => r.box # ClampToMargin(FullPageBox, LastTopMargin)

\* C3: process_pdf continues after a page failed, and every page of the
\* output document copied from a failed page is the unmodified source
\* page: no overlay, no image, no links.
C3_FailedPagePassedThrough ==
    entry = "process_pdf" =>
        /\ pc # "raised"
        /\ \A i \in 1..Len(output_pdf) :
              (\E e \in 1..Len(errors) : errors[e] = output_pdf[i].src)
                  => output_pdf[i] = OutPage(output_pdf[i].src, FALSE, FALSE, <<>>)

\* C4: in the pixel-based pipeline no error of a page leaves the page
\* loop: the run never ends with the exception raised, so that the
\* remaining pages are processed and the analysed document is saved.
C4_PageErrorDoesNotPropagate ==
    entry = "detect_and_extract_articles" => pc # "raised"

\* C5: when a detection technique raised on the page processed last, the
\* page was still processed: the loop moved on to the next page and the
\* page was added to the output document.
C5_FailedTechniqueIsSkipped ==
    (entry = "detect_and_extract_articles" /\ last_error \in {"adaptive", "canny"}) =>
        /\ pc # "raised"
        /\ Len(output_pdf) = page_num

\* intersection area of two boxes (x0, y0, x1, y1)
BoxInter(a, b) ==
    LET iw == Min(a[3], b[3]) - Max(a[1], b[1])
        ih == Min(a[4], b[4]) - Max(a[2], b[2])
    IN  IF iw > 0 /\ ih > 0 THEN iw * ih ELSE 0

\* intersection / area <= 0.5 in both directions
LowOverlap(r1, r2) ==
    LET inter == BoxInter(RectBox(r1), RectBox(r2))
    IN  2 * inter <= r1.w * r1.h /\ 2 * inter <= r2.w * r2.h

MergedSet == {filtered_rects[i] : i \in 1..Len(filtered_rects)}

\* the boxes accepted before the k-th secondary box is looked at
AcceptedBefore(k) ==
    {adaptive_rects[i] : i \in 1..Len(adaptive_rects)}
        \cup {canny_rects[j] : j \in {j \in 1..(k - 1) : canny_rects[j] \in MergedSet}}

\* C6: every primary (adaptive) box is in the merged set; a secondary
\* (canny) box is in it exactly when its overlap with every box accepted
\* before it is at most 0.5 in both directions; primary [100,200,400,500]
\* beats secondary [110,205,390,495].
C6_ConsensusMerge ==
    entry = "detect_and_extract_articles" =>
        /\ \A i \in 1..Len(adaptive_rects) : adaptive_rects[i] \in MergedSet
        /\ \A k \in 1..Len(canny_rects) :
              canny_rects[k] \in MergedSet
                  <=> \A b \in AcceptedBefore(k) : LowOverlap(canny_rects[k], b)
        /\ MergedSet \subseteq AcceptedBefore(Len(canny_rects) + 1)
        /\ (\E i \in 1..Len(adaptive_rects) :
                RectBox(adaptive_rects[i]) = <<100, 200, 400, 500>>)
              => \A r \in MergedSet :
                    RectBox(r) = <<110, 205, 390, 495>> => r.cnt[1] = "adaptive"

\* C6 witness: beside a primary box, one secondary box was accepted with
\* exactly half of the primary box covered and another one was rejected.
C6_Witness ==
    /\ entry = "detect_and_extract_articles" /\ page_num > 0
    /\ \E i \in 1..Len(adaptive_rects), k \in 1..Len(canny_rects) :
          /\ canny_rects[k] \in MergedSet
          /\ 2 * BoxInter(RectBox(canny_rects[k]), RectBox(adaptive_rects[i]))
                = adaptive_rects[i].w * adaptive_rects[i].h
    /\ \E k \in 1..Len(canny_rects) : canny_rects[k] \notin MergedSet

\* C7: every Region handed to a consumer carries the url of its own page
\* number and list position: the links process_pdf inserts, and the
\* regions extract_articles_from_pdf uploads as page{N}-article{idx+1}.
C7_UrlOfOwnPosition ==
    /\ entry = "process_pdf" =>
          \A p \in 1..Len(output_pdf) : \A i \in 1..Len(output_pdf[p].links) :
              output_pdf[p].links[i].uri
                  = generate_article_url(segmenter, output_pdf[p].src + 1, i)
    /\ entry = "extract_articles_from_pdf" =>
          \A k \in 1..Len(uploads) :
              uploads[k].region.url
                  = generate_article_url(segmenter, uploads[k].filename.page,
                                         uploads[k].filename.article)

\* numbers of a list of (page, article) names run 1, 2, ... within a page
\* and start again at 1 when the page changes
NumberedPerPage(names) ==
    \A k \in 1..Len(names) :
        names[k].article =
            IF k > 1 /\ names[k - 1].page = names[k].page
            THEN names[k - 1].article + 1 ELSE 1

\* C8: on every page the Regions are numbered 1, 2, ..., n in list order
\* and the numbering starts again at 1 on the next page: the labels and
\* link urls of process_pdf, the article files of both extractors.
C8_SequencePerPage ==
    /\ entry = "process_pdf" =>
          /\ \A i \in 1..Len(article_regions) :
                /\ article_regions[i].label = [prefix |-> "article_", num |-> i]
                /\ article_regions[i].url.article = i
          /\ \A p \in 1..Len(output_pdf) : \A i \in 1..Len(output_pdf[p].links) :
                output_pdf[p].links[i].uri.article = i
    /\ entry = "extract_articles_from_pdf" =>
          NumberedPerPage([k \in 1..Len(uploads) |-> uploads[k].filename])
    /\ entry = "detect_and_extract_articles" =>
          NumberedPerPage([k \in 1..Len(saved_articles) |-> saved_articles[k].filename])

\* C8 witness: process_pdf numbered two regions on page 1 and started
\* again at 1 on page 2.
C8_Witness ==
    /\ entry = "process_pdf" /\ page_num = 2 /\ last_error = "none"
    /\ Len(output_pdf) = 2
    /\ Len(output_pdf[1].links) = 2
    /\ Len(article_regions) >= 1
    /\ article_regions[1].label.num = 1

\* C9: the area of every returned Region's (clamped) box, as a fraction of
\* the page area, lies in [min_area_ratio, max_area_ratio], bounds included.
C9_AreaRatioInBounds ==
    (UsesSegmenter /\ PageDone) =>
        \A r \in Regions :
            /\ segmenter.min_area_ratio * PageArea(page_plumber) <= BoxArea(r.box) * 1000
            /\ BoxArea(r.box) * 1000 <= segmenter.max_area_ratio * PageArea(page_plumber)

\* C9 witness: one returned Region sits exactly on the lower bound and
\* another exactly on the upper bound.
C9_Witness ==
    /\ UsesSegmenter /\ PageDone
    /\ \E r \in Regions :
          BoxArea(r.box) * 1000 = segmenter.min_area_ratio * PageArea(page_plumber)
    /\ \E r \in Regions :
          BoxArea(r.box) * 1000 = segmenter.max_area_ratio * PageArea(page_plumber)

\* C10: every emitted Region has box.x0 < box.x1 and box.y0 < box.y1.
C10_BoxNotDegenerate ==
    (UsesSegmenter /\ PageDone) =>
        \A r \in Regions : r.box[1] < r.box[3] /\ r.box[2] < r.box[4]

\* C11: a candidate that lies entirely above the top margin (y1 <= top
\* margin) is never emitted, and every emitted Region has y1 > top margin
\* and y0 >= top margin: the Regions of the metadata strategy against the
\* margin of their page, the rectangles of the pixel strategy against
\* ignore_height.
C11_NothingAboveTopMargin ==
    /\ (UsesSegmenter /\ PageDone) =>
          /\ \A r \in Regions : r.box[4] > LastTopMargin /\ r.box[2] >= LastTopMargin
          /\ \A c \in LastCandidates :
                c[4] <= LastTopMargin =>
                    \A r \in Regions :
                        r.original_box # c /\ r.box # ClampToMargin(c, LastTopMargin)
    /\ entry = "detect_and_extract_articles" =>
          \A r \in MergedSet :
              /\ r.y + r.h > IgnoreHeight(PageSize.height)
              /\ r.y >= IgnoreHeight(PageSize.height)

\* C11 witness: the page held a candidate entirely above the top margin
\* and one straddling it, and a Region starting on the margin was emitted.
C11_Witness ==
    /\ UsesSegmenter /\ PageDone
    /\ \E c \in LastCandidates : c[4] <= LastTopMargin
    /\ \E r \in Regions : r.box[2] = LastTopMargin

\* margin percentage (tenths of a percent) a configuration gives the page
\* processed last: the first-page value on the first page of the
\* document, the other-pages value on every other page
MarginPercentOf(config) ==
    IF LastWasFirstPage THEN config.first_page_margin_percent
    ELSE config.other_pages_margin_percent

\* contours of a pass that lie below a top margin of pct tenths of a
\* percent and pass the closed-contour tests
BelowMargin(technique, pct) ==
    {c \in {page_contours[technique][k] : k \in 1..Len(page_contours[technique])} :
        /\ ClosedContour(c, PageSize.width, PageSize.height)
        /\ c.y * 1000 >= PageSize.height * pct}

\* C12: the top margin of the page processed last is page height times
\* the first-page percentage on the first page and page height times the
\* other-pages percentage on every other page.  Metadata strategy: the
\* margin applied is exactly that value.  Pixel strategy (percentages of
\* the default configuration): ignore_height is that value, and a closed
\* contour that starts at or below it is not dropped for the margin: it is
\* a rectangle of its pass unless another rectangle encloses it.
C12_TopMarginPerPage ==
    /\ (UsesSegmenter /\ PageDone) =>
          LastTopMargin * 1000 = page_plumber.height * MarginPercentOf(segmenter)
    /\ (entry = "detect_and_extract_articles" /\ PageDone) =>
          /\ IgnoreHeight(PageSize.height) * 1000
                = PageSize.height * MarginPercentOf(DefaultSegmenter)
          /\ \A c \in BelowMargin("adaptive", MarginPercentOf(DefaultSegmenter)) :
                \/ \E r \in {adaptive_rects[i] : i \in 1..Len(adaptive_rects)} :
                      r.cnt = <<"adaptive", c.id>>
                \/ \E d \in BelowMargin("adaptive", MarginPercentOf(DefaultSegmenter)) :
                      StrictlyInside(c, d)

\* C13: every rectangle the pixel strategy emits has a bounding-box area
\* between 0.01 and 0.85 of the page area (the default min_area_ratio and
\* max_area_ratio) and an edge-proximity coverage of at most 0.9.
C13_PixelGeometricFilter ==
    entry = "detect_and_extract_articles" =>
        \A r \in MergedSet :
            /\ DefaultSegmenter.min_area_ratio * PageArea(PageSize) <= r.w * r.h * 1000
            /\ r.w * r.h * 1000 <= DefaultSegmenter.max_area_ratio * PageArea(PageSize)
            /\ ~CoverageTooHigh(calculate_page_coverage(RectBox(r), FullPageBox))

\* box a lies strictly inside box b on all four sides
BoxStrictlyInside(a, b) == a[1] > b[1] /\ a[2] > b[2] /\ a[3] < b[3] /\ a[4] < b[4]

\* C14: no Region the metadata strategy returns for a page has its box
\* strictly inside the box of another Region returned for the same page.
C14_NoNestedRegion ==
    (UsesSegmenter /\ PageDone) =>
        \A r1 \in Regions : \A r2 \in Regions : ~BoxStrictlyInside(r1.box, r2.box)

\* links of the output page written by the iteration done last
LastLinks == output_pdf[Len(output_pdf)].links

\* C15: the output page of a processed page carries exactly one link per
\* Region of the page, in list order, whose rectangle is the Region's box
\* and whose URI is the Region's url: the relabelled url in process_pdf,
\* the public url of the article file in detect_and_extract_articles,
\* whether or not the uploads succeeded.
C15_OneLinkPerRegion ==
    /\ (entry = "process_pdf" /\ PageDone) =>
          LastLinks = [i \in 1..Len(article_regions) |->
                          [kind |-> "LINK_URI", uri |-> article_regions[i].url,
                           from |-> article_regions[i].box]]
    /\ (entry = "detect_and_extract_articles" /\ PageDone) =>
          LastLinks = [i \in 1..Len(filtered_rects) |->
                          [kind |-> "LINK_URI",
                           uri |-> PublicUrl(ArticleFilename(page_num - 1, i)),
                           from |-> RectBox(filtered_rects[i])]]

\* C16: a segmenter configured with min_area_ratio > max_area_ratio is
\* rejected at construction: with such a configuration no page is ever
\* processed and the run never completes.
C16_InvertedRatiosRejected ==
    (UsesSegmenter /\ segmenter.min_area_ratio > segmenter.max_area_ratio) =>
        page_num = 0 /\ pc # "done"

\* the last n pieces of a text
Tail_n(text, n) == SubSeq(text, Len(text) - n + 1, Len(text))

\* the url the date 2024-05-01 gives page n, sequence number m
UrlText_2024_05_01(n, m) ==
    <<s3_base_url, "/", "2", "0", "2", "4", "/", "2", "0", "2", "4", "0", "5", "0", "1",
      "/", "page", ToString(n), "-article", ToString(m), ".jpg">>

\* C17: the url of a Region is a function of (date, page number, sequence
\* number) alone, {base}/{YYYY}/{YYYYMMDD}/page{N}-article{M}.jpg: for the
\* date 2024-05-01 the link of the third Region of page 2 ends in
\* /2024/20240501/page2-article3.jpg, and so for every page and position;
\* and no step of a run changes a field of the segmenter.
C17_UrlOfDatePageSequence ==
    /\ [](entry = "process_pdf" =>
            \A p \in 1..Len(output_pdf) : \A i \in 1..Len(output_pdf[p].links) :
                /\ segmenter.date = Date_2024_05_01
                /\ ArticleUrlText(output_pdf[p].links[i].uri)
                      = UrlText_2024_05_01(output_pdf[p].src + 1, i)
                /\ (output_pdf[p].src + 1 = 2 /\ i = 3) =>
                      Tail_n(ArticleUrlText(output_pdf[p].links[i].uri), 20)
                        = <<"/", "2", "0", "2", "4", "/", "2", "0", "2", "4", "0", "5",
                            "0", "1", "/", "page", "2", "-article", "3", ".jpg">>)
    /\ [][segmenter' = segmenter]_vars

\* C17 witness: process_pdf linked a third Region on page 2.
C17_Witness ==
    /\ entry = "process_pdf" /\ PageDone
    /\ Len(output_pdf) = 2 /\ output_pdf[2].src = 1
    /\ Len(output_pdf[2].links) >= 3

\* the boxes the images / the tables of the page processed last are given
LastImageBoxes ==
    {ClampToMargin(ImageBox(page_plumber.images[i]), LastTopMargin) :
        i \in 1..Len(page_plumber.images)}

LastTableBoxes ==
    {ClampToMargin(page_plumber.tables[i], LastTopMargin) :
        i \in 1..Len(page_plumber.tables)}

\* C20: in the Region list of a page every Region scores 1.0 and comes
\* from an image or scores 0.9 and comes from a table, no table Region
\* precedes an image Region, so that scores lie in [0, 1] and never
\* increase along the list; in process_pdf the table Regions continue the
\* numbering of the image Regions (label and url number = list position).
C20_ImagesBeforeTables ==
    (UsesSegmenter /\ PageDone) =>
        /\ \A i \in 1..Len(article_regions) :
              /\ 0 <= article_regions[i].score /\ article_regions[i].score <= 10
              /\ \/ article_regions[i].score = 10
                        /\ article_regions[i].box \in LastImageBoxes
                 \/ article_regions[i].score = 9
                        /\ article_regions[i].box \in LastTableBoxes
              /\ entry = "process_pdf" =>
                    /\ article_regions[i].label = [prefix |-> "article_", num |-> i]
                    /\ article_regions[i].url.article = i
        /\ \A i \in 1..Len(article_regions) : \A j \in (i + 1)..Len(article_regions) :
              article_regions[i].score >= article_regions[j].score

\* C20 witness: process_pdf returned two image Regions followed by a
\* table Region numbered 3.
C20_Witness ==
    /\ entry = "process_pdf" /\ PageDone
    /\ Len(article_regions) = 3
    /\ article_regions[2].score = 10
    /\ article_regions[3].score = 9
    /\ article_regions[3].label.num = 3

SequentialOutPage(n) == OutPage(n, TRUE, entry = "process_pdf", workers[n].links)

DetectedOnePage ==
    entry = "detect_and_extract_articles" /\ pc \in {"first", "between", "again"}

ContourBox(c) == <<c.x, c.y, c.x + c.w, c.y + c.h>>

\* the candidates of a pass, in contour order: outer contours that pass
\* the area, perimeter and aspect tests and start at or below ignore_height
PassCandidates(technique) ==
    SelectSeq(page_contours[technique],
              LAMBDA c : /\ ClosedContour(c, PageSize.width, PageSize.height)
                         /\ c.y >= IgnoreHeight(PageSize.height))

PassRects(technique) == IF technique = "adaptive" THEN adaptive_rects ELSE canny_rects

\* positions of the candidates no other candidate of the pass strictly contains
Uncontained(cands) ==
    {i \in 1..Len(cands) :
        ~\E j \in 1..Len(cands) :
            j # i /\ BoxStrictlyInside(ContourBox(cands[i]), ContourBox(cands[j]))}

\* C22: within one pass a candidate is removed exactly when another
\* candidate of the pass (removed itself or not) strictly contains it on
\* all four sides; candidates with equal boxes or an edge coordinate in
\* common with their container stay; survivors keep their relative order.
C22_ContainmentSuppression ==
    DetectedOnePage =>
        \A t \in {"adaptive", "canny"} :
            LET cands == PassCandidates(t)
                rects == PassRects(t)
                kept == Uncontained(cands)
            IN  /\ Len(rects) = Cardinality(kept)
                /\ \A k \in 1..Len(rects) :
                      \E i \in kept :
                          /\ rects[k].cnt = <<t, cands[i].id>>
                          /\ RectBox(rects[k]) = ContourBox(cands[i])
                          /\ Cardinality({m \in kept : m < i}) = k - 1

\* C22 witness: of the candidates B, A, C, Edge, A2 (C in B in A, Edge on
\* A's left edge, A2 equal to A) the pass returned A, Edge, A2.
C22_Witness ==
    /\ DetectedOnePage
    /\ Len(PassCandidates("adaptive")) = 5
    /\ [k \in 1..Len(adaptive_rects) |-> adaptive_rects[k].cnt[2]] = <<"A", "Edge", "A2">>

\* the conditions under which an outer contour is a candidate: area in
\* [30000, 0.9 * page area], perimeter >= 500, width / height in
\* [0.2, 5.0], top y >= ignore_height, every bound included
IsCandidate(c) ==
    /\ c.parent = -1
    /\ min_area <= c.area /\ 10 * c.area <= 9 * PageArea(PageSize)
    /\ c.perimeter >= min_perimeter
    /\ c.h <= 5 * c.w /\ c.w <= 5 * c.h
    /\ c.y >= IgnoreHeight(PageSize.height)

\* C23: a contour of a pass is a candidate exactly under the conditions
\* of IsCandidate: a rectangle the pass returns comes from a contour that
\* meets them, and a contour that meets them is returned unless another
\* such contour strictly contains it; contours with a parent never are.
C23_PixelCandidateFilter ==
    DetectedOnePage =>
        \A t \in {"adaptive", "canny"} : \A k \in 1..Len(page_contours[t]) :
            LET c == page_contours[t][k]
                returned == \E r \in {PassRects(t)[i] : i \in 1..Len(PassRects(t))} :
                                r.cnt = <<t, c.id>>
            IN  /\ returned => IsCandidate(c)
                /\ (IsCandidate(c) /\ ~returned) =>
                      \E j \in 1..Len(page_contours[t]) :
                          /\ j # k /\ IsCandidate(page_contours[t][j])
                          /\ BoxStrictlyInside(ContourBox(c),
                                               ContourBox(page_contours[t][j]))
                /\ c.parent # -1 => ~returned

\* C23 witness: of ten contours on and just off the bounds, the four on
\* the bounds (area 30000, ratio 5.0, ratio 0.2, top y = ignore_height)
\* were returned.
C23_Witness ==
    /\ DetectedOnePage
    /\ page_contours.adaptive = BoundaryContours
    /\ [k \in 1..Len(adaptive_rects) |-> adaptive_rects[k].cnt[2]]
          = <<"MinArea", "Wide", "Tall", "AtIgnore">>

\* edge-proximity coverage of a box is at most 0.9: the four normalized
\* distances |x0|/W, |x1 - W|/W, |y0|/H, |y1 - H|/H average 0.1 or more
CoverageAtMostNineTenths(box, page) ==
    10 * ((Abs(box[1]) + Abs(box[3] - page.width)) * page.height
          + (Abs(box[2]) + Abs(box[4] - page.height)) * page.width)
        >= 4 * page.width * page.height

\* C24: every Region _extract_article_regions returns has an
\* edge-proximity coverage of at most 0.9, computed on its clamped box;
\* the coverage computed for a rectangle is 1 exactly when the rectangle
\* is the page; and a candidate whose clamped box passes the area-ratio
\* test with a coverage above 0.9 is not returned.
C24_CoverageAtMostNineTenths ==
    (UsesSegmenter /\ PageDone) =>
        /\ \A r \in Regions : CoverageAtMostNineTenths(r.box, page_plumber)
        /\ \A c \in LastCandidates :
              LET cov == calculate_page_coverage(c, FullPageBox)
              IN  cov.num = cov.den <=> c = FullPageBox
        /\ \A c \in LastCandidates :
              LET box == ClampToMargin(c, LastTopMargin)
              IN  (/\ ~InTopMargin(c, LastTopMargin)
                   /\ ~AreaRatioRejected(segmenter, box, page_plumber)
                   /\ ~CoverageAtMostNineTenths(box, page_plumber))
                      => \A r \in Regions : r.box # box

\* C24 witness: a candidate whose clamped box passes the area-ratio test
\* with a coverage above 0.9 was on the page, and the page returned a Region.
C24_Witness ==
    /\ UsesSegmenter /\ PageDone
    /\ Regions # {}
    /\ \E c \in LastCandidates :
          LET box == ClampToMargin(c, LastTopMargin)
          IN  /\ ~InTopMargin(c, LastTopMargin)
              /\ ~AreaRatioRejected(segmenter, box, page_plumber)
              /\ ~CoverageAtMostNineTenths(box, page_plumber)

\* position of a rectangle in the list of the canny pass
CannyIndex(r) == CHOOSE k \in 1..Len(canny_rects) : canny_rects[k] = r

\* C28: the merged list of a page is the primary (adaptive) rectangles in
\* their order followed by accepted secondary (canny) rectangles in their
\* order, and any two rectangles at different positions of which at least
\* one is secondary overlap by at most 0.5 of either area.
C28_MergedOrderAndOverlap ==
    DetectedOnePage =>
        /\ Len(filtered_rects) >= Len(adaptive_rects)
        /\ SubSeq(filtered_rects, 1, Len(adaptive_rects)) = adaptive_rects
        /\ \A p \in (Len(adaptive_rects) + 1)..Len(filtered_rects) :
              /\ \E k \in 1..Len(canny_rects) : canny_rects[k] = filtered_rects[p]
              /\ \A q \in (p + 1)..Len(filtered_rects) :
                    CannyIndex(filtered_rects[p]) < CannyIndex(filtered_rects[q])
        /\ \A p \in 1..Len(filtered_rects) : \A q \in 1..Len(filtered_rects) :
              (p # q /\ q > Len(adaptive_rects))
                  => LowOverlap(filtered_rects[p], filtered_rects[q])

\* C28 witness: four primary rectangles are followed by two secondary
\* ones, the first of which cuts into a primary rectangle.
C28_Witness ==
    /\ DetectedOnePage
    /\ Len(adaptive_rects) = 4
    /\ Len(filtered_rects) = 6
    /\ \E p \in 1..4 :
          BoxInter(RectBox(filtered_rects[p]), RectBox(filtered_rects[5])) > 0

\* C29: no rectangle of the merged list of a page lies strictly inside
\* another rectangle of the list on all four sides.
C29_NoNestedMergedRect ==
    DetectedOnePage =>
        \A p \in 1..Len(filtered_rects) : \A q \in 1..Len(filtered_rects) :
            ~BoxStrictlyInside(RectBox(filtered_rects[p]), RectBox(filtered_rects[q]))

\* C29 witness: the canny pass dropped a contour nested in another one and
\* kept one rectangle around a primary rectangle and one inside a primary
\* rectangle; the merge took neither.
C29_Witness ==
    /\ DetectedOnePage
    /\ Len(canny_rects) < Len(PassCandidates("canny"))
    /\ \E c \in 1..Len(canny_rects) : \E a \in 1..Len(adaptive_rects) :
          BoxStrictlyInside(RectBox(adaptive_rects[a]), RectBox(canny_rects[c]))
    /\ \E c \in 1..Len(canny_rects) : \E a \in 1..Len(adaptive_rects) :
          BoxStrictlyInside(RectBox(canny_rects[c]), RectBox(adaptive_rects[a]))
    /\ filtered_rects = adaptive_rects

\* C27: after every iteration of process_pdf's page loop, and so in the
\* saved document, the output holds exactly one page per source page
\* handled so far, in source order, whether or not pages failed.
C27_OnePagePerSourcePage ==
    entry = "process_pdf" =>
        /\ Len(output_pdf) = page_num
        /\ \A i \in 1..Len(output_pdf) : output_pdf[i].src = i - 1

\* positions <<page, k>> of the links process_pdf wrote so far
LinkPositions ==
    UNION {{<<i, k>> : k \in 1..Len(output_pdf[i].links)} : i \in 1..Len(output_pdf)}

LinkText(pos) == ArticleUrlText(output_pdf[pos[1]].links[pos[2]].uri)

\* (pageNumber, sequenceNumber) pairs a run can pass to _generate_article_url
UrlPairs == (1..(MaxPages + 1)) \X (1..4)

\* C30: within one document no two Regions carry the same url text (there
\* are as many url texts as Regions):
\* different (pageNumber, sequenceNumber) pairs give different urls, the
\* links process_pdf wrote are pairwise different, and so are the urls of
\* the Regions _extract_article_regions returned to
\* extract_articles_from_pdf over all pages. The urls of the pairs are
\* compared at the start of a run: the segmenter is the same all through.
C30_UrlsDistinct ==
    /\ (UsesSegmenter /\ page_num = 0) =>
          Cardinality({ArticleUrlText(generate_article_url(segmenter, a[1], a[2])) :
                          a \in UrlPairs}) = Cardinality(UrlPairs)
    /\ entry = "process_pdf" =>
          Cardinality({LinkText(a) : a \in LinkPositions}) = Cardinality(LinkPositions)
    /\ entry = "extract_articles_from_pdf" =>
          Cardinality({ArticleUrlText(uploads[i].region.url) : i \in 1..Len(uploads)})
              = Len(uploads)

\* C30 witness: extract_articles_from_pdf got Regions from two pages, one
\* page giving an image Region and a table Region.
C30_Witness ==
    /\ entry = "extract_articles_from_pdf"
    /\ \E i \in 1..Len(uploads) : \E j \in 1..Len(uploads) :
          /\ uploads[i].filename.page = uploads[j].filename.page
          /\ uploads[i].region.score = 10 /\ uploads[j].region.score = 9
    /\ \E i \in 1..Len(uploads) : \E j \in 1..Len(uploads) :
          uploads[i].filename.page # uploads[j].filename.page

\* the phases of a page, in order
PagePhases ==
    <<"Unprocessed", "CandidatesExtracted", "Filtered", "Merged", "Labeled", "Done">>

\* the furthest phase the iteration of a page has reached at a position:
\* candidates are there once page.images was read, tested once the image
\* loop ended, one list once _extract_article_regions returned
PagePhase(at) ==
    CASE at = "start" -> 1
      [] at = "images" -> 2
      [] at \in {"images_done", "tables"} -> 3
      [] at = "returned" -> 4
      [] at \in {"labeled", "copied"} -> 5
      [] OTHER -> 6

PhaseOf(n) == PagePhase(workers[n].pc)

AllPagesDoneAndSaved ==
    /\ pc = "done"
    /\ \A n \in DOMAIN workers : PagePhases[PhaseOf(n)] = "Done"

C21_AnalyzePageResultOrError ==
    entry = "analyze_page" =>
        /\ pc = "done" =>
              /\ DOMAIN analyze.result.elements = {"words", "tables", "images"}
              /\ analyze.result.output_path \in DOMAIN files
              /\ page_num \in files[analyze.result.output_path].overlaid
        /\ (\/ analyze.pdf_path = NonexistentPdf
            \/ analyze.page_number \notin 0..(num_pages - 1))
              => pc \in {"call", "raised"}

\* the text a reader of regions_by_language finds in position k of the
\* list of a language
TextIn(language, k) == region_text[regions_by_language[language][k]]

\* C26: translate_regions leaves the text of every Region it was given
\* as it was, so that at any point of the loop over the target languages
\* the list under the source language holds the texts read from the page
\* and the list under every target language handled holds, for each
\* Region with text, the translation of that text into that language (or
\* the text itself when the translation request failed).
C26_TranslationKeepsSource ==
    entry = "translate_page" =>
        /\ \A k \in 1..Len(regions_by_language[source_language]) :
              TextIn(source_language, k) \in {Blank, OcrText(k)}
        /\ \A l \in TargetsDone : \A k \in 1..Len(regions_by_language[l]) :
              TextIn(l, k) \in {Blank, OcrText(k), Translated(OcrText(k), l)}

====
